---- MODULE Spec2Model ----
(***************************************************************************)
(* A model of vididoo's client-side media tools.                           *)
(*                                                                         *)
(* Part 1: MergeVideosTool.mergeVideos (merge-videos-tool.tsx), the job    *)
(* that concatenates the selected clips into one MP4.  The media engine    *)
(* (mediabunny) is an opaque collaborator: what its iterators yield and    *)
(* whether one of its calls throws are nondeterministic choices.           *)
(* Time is counted in integer ticks.                                       *)
(***************************************************************************)
EXTENDS Integers, Sequences, FiniteSets, TLC

\* ------------------------------------------------------------- bounds
\* videoFiles.length of the job (the button needs at least two files)
NumClips == 2
\* most samples the iterators yield to one track of the output in a job
MaxSamples == 3

Clips == 1..NumClips
\* a source is a clip's input (k) or the input reopened from clip k's
\* resized bytes (NumClips + k)
ResizedOf(k) == NumClips + k
Sources == 1..(2 * NumClips)

\* display sizes <<displayWidth, displayHeight>> a file's frames may have
Sizes == {<<4, 2>>, <<2, 4>>}
\* durations of a video sample (a frame) and of an audio sample (a chunk)
Durs == {1}
AudioDurs == {2}
NoSize == <<0, 0>>

VARIABLES
  status,             \* React state: 'ready' | 'converting' | 'success' | 'error'
  progress,           \* React state
  errorMessage,       \* React state ("" models null)
  downloadName,       \* React state (FALSE models null)
  pc,                 \* position of the running mergeVideos call
  clipSize,           \* display size of a file's frames, once a sample was read
  inputs,             \* const inputs: the sources pushed so far
  audioTracks,        \* const audioTracks: TRUE a track, FALSE null
  target,             \* <<targetWidth, targetHeight>>
  outState,           \* the output: none | created | started | finalized | cancelled
  outVideo,           \* samples appended to videoSource, in write order
  outAudio,           \* samples appended to audioSource, in write order
  currentTimestamp,   \* let currentTimestamp
  lastVideoTimestamp, \* let lastVideoTimestamp of the running drain
  i,                  \* loop index of the clip being processed (1-based)
  nonEmpty,           \* whether the clip's video iterator yields a sample
  resizedAudio,       \* resizedAudioTracks.length > 0
  sink,               \* the running iterator: next timestamp, samples pulled
  opened,             \* sources opened so far
  disposed,           \* dispose() calls per source
  unclosed,           \* samples and clones created and not closed
  errors,             \* setErrorMessage(message) calls of the job
  failure,            \* the operation that threw into the outer catch
  audioFailed,        \* clips whose audio try block threw
  cancelRequested     \* the user asked the running job to stop

mergeVars == <<status, progress, errorMessage, downloadName, pc, clipSize,
               inputs, audioTracks, target, outState, outVideo, outAudio, currentTimestamp,
          lastVideoTimestamp, i, nonEmpty, resizedAudio, sink, opened,
          disposed, unclosed, errors, failure, audioFailed, cancelRequested>>

\* Part 2: one mounted tool component and the calls of its job function
VARIABLES
  tool,               \* which component: replaceAudio | speedControl | mergeVideos
  toolStatus,         \* the component's React state status
  jobs                \* position of each call of the job function

jobVars == <<tool, toolStatus, jobs>>

\* Part 3: the pointer surface of CropVideoTool and AddWatermarkTool
VARIABLES
  rectTool,           \* which component: crop | watermark
  selection,          \* selection / watermarkRect: <<>> models null, else <<rect>>
  interaction,        \* interactionRef.current (kind "none" models null)
  capture,            \* pointer id holding the container's pointer capture, 0 none
  lastEvent           \* the kind of the UI event handled last

rectVars == <<rectTool, selection, interaction, capture, lastEvent>>

\* Part 4: matchAudioDuration of ReplaceAudioTool and the image-to-video tool
VARIABLES
  matchTool,          \* whose matchAudioDuration: replaceAudio | imageToVideo
  audioBuffer,        \* the decoded AudioBuffer handed to the function
  targetDuration,     \* the target duration, in 1/DurationDen seconds
  matched             \* the buffers returned by successive calls

matchVars == <<matchTool, audioBuffer, targetDuration, matched>>

\* Part 5: BlendTracksTool
VARIABLES
  primary,            \* primary.buffer
  secondary,          \* secondary.buffer
  blendRatio,         \* React state blendRatio, in 1/GainDen
  blendStatus,        \* React state status
  blendProgress,      \* React state progress
  blendError,         \* React state errorMessage ("" models null)
  blendPc,            \* position of the blendTracks call
  mixedBuffer,        \* const mixedBuffer: <<>> before it exists
  blendSource,        \* the AudioBufferSource: none | open | closed
  blendOutput         \* the output: none | created | started | finalized | cancelled

blendVars == <<primary, secondary, blendRatio, blendStatus, blendProgress,
               blendError, blendPc, mixedBuffer, blendSource, blendOutput>>

\* Part 6: ResizeVideoTool
VARIABLES
  targetWidth,        \* React state targetWidth, in 1/RequestDen px
  targetHeight,       \* React state targetHeight, in 1/RequestDen px
  resizeStatus,       \* React state status
  lockAspect,         \* React state lockAspect
  originalSize,       \* React state originalSize: <<width, height>>, <<>> for null
  encoderSize         \* <<evenWidth, evenHeight>> handed to the encoder, <<>> before

resizeVars == <<targetWidth, targetHeight, resizeStatus, lockAspect,
                originalSize, encoderSize>>

\* null in a field of type number | null
Null == -1

\* Parts 7 and later keep their state in one record each
VARIABLES
  cropJob,
  speedJob,
  renderJob,
  audioPick,
  cutJob

lateVars == <<cropJob, speedJob, renderJob, audioPick, cutJob>>

earlyVars == <<jobVars, rectVars, matchVars, blendVars, resizeVars>>

notCropVars == <<mergeVars, earlyVars, speedJob, renderJob, audioPick, cutJob>>
notSpeedVars == <<mergeVars, earlyVars, cropJob, renderJob, audioPick, cutJob>>
notRenderVars == <<mergeVars, earlyVars, cropJob, speedJob, audioPick, cutJob>>
notPickVars == <<mergeVars, earlyVars, cropJob, speedJob, renderJob, cutJob>>
notCutVars == <<mergeVars, earlyVars, cropJob, speedJob, renderJob, audioPick>>

\* the state of the tools other than the merge job
toolVars == <<jobVars, rectVars, matchVars, blendVars, resizeVars, lateVars>>

\* what a part's actions leave alone
notJobVars == <<mergeVars, rectVars, matchVars, blendVars, resizeVars, lateVars>>
notRectVars == <<mergeVars, jobVars, matchVars, blendVars, resizeVars, lateVars>>
notMatchVars == <<mergeVars, jobVars, rectVars, blendVars, resizeVars, lateVars>>
notBlendVars == <<mergeVars, jobVars, rectVars, matchVars, resizeVars, lateVars>>
notResizeVars == <<mergeVars, jobVars, rectVars, matchVars, blendVars, lateVars>>

\* most calls of a job function one component has in flight or finished
MaxJobs == 2
Jobs == 1..MaxJobs
Tools == {"replaceAudio", "speedControl", "mergeVideos"}

\* a component whose button was never clicked
JobsIdle ==
  /\ tool = "mergeVideos"
  /\ toolStatus = "ready"
  /\ jobs = [j \in Jobs |-> "none"]

\* NormalizedRect: ratios are counted in units of 1/10000, so One is the 1
\* of clampNumber(x, 0, 1 - width)
One == 10000
ZeroRect == [x |-> 0, y |-> 0, width |-> 0, height |-> 0]
NoInteraction ==
  [kind |-> "none", pointerId |-> 0, origin |-> <<0, 0>>,
   initialRect |-> ZeroRect, handle |-> "none"]
NoEvent == "none"

\* a pointer surface nobody touched, no rect stored
RectIdle ==
  /\ rectTool = "crop"
  /\ selection = <<>>
  /\ interaction = NoInteraction
  /\ capture = 0
  /\ lastEvent = NoEvent

\* an AudioBuffer: its sample rate and, per channel, its frames
SilentBuffer == [sampleRate |-> 1, channels |-> <<<<0>>>>]

\* no call of matchAudioDuration was made
MatchIdle ==
  /\ matchTool = "replaceAudio"
  /\ audioBuffer = SilentBuffer
  /\ targetDuration = 0
  /\ matched = <<>>

\* BlendTracksTool before the button is clicked
BlendIdle ==
  /\ primary = SilentBuffer
  /\ secondary = SilentBuffer
  /\ blendRatio = 0
  /\ blendStatus = "ready"
  /\ blendProgress = 0
  /\ blendError = ""
  /\ blendPc = "idle"
  /\ mixedBuffer = <<>>
  /\ blendSource = "none"
  /\ blendOutput = "none"

\* ResizeVideoTool before a size is entered
ResizeIdle ==
  /\ targetWidth = 0
  /\ targetHeight = 0
  /\ resizeStatus = "ready"
  /\ lockAspect = TRUE
  /\ originalSize = <<>>
  /\ encoderSize = <<>>

\* Parts 7 and later before anything was done
\* CropVideoTool with no video loaded
CropIdle ==
  [videoDimensions |-> <<>>, selectionPixels |-> <<>>, status |-> "idle",
   errorMessage |-> "", frame |-> <<>>, source |-> <<>>]

\* SpeedControlTool with no file selected
SpeedIdle ==
  [speed |-> 25, status |-> "idle", progress |-> 0, pc |-> "idle",
   effectiveSpeed |-> 0, video |-> <<>>, audio |-> <<>>,
   writtenVideo |-> <<>>, writtenAudio |-> <<>>]

\* ImageToVideoTool / AddWatermarkTool before their button is clicked
RenderIdle ==
  [tool |-> "imageToVideo", status |-> "ready", progress |-> 0,
   errorMessage |-> "", pc |-> "idle", durationSeconds |-> 1,
   hasAudio |-> FALSE, framesAdded |-> 0, finalized |-> FALSE]

\* the audio picker of ReplaceAudioTool / ImageToVideoTool with nothing selected
PickIdle ==
  [tool |-> "replaceAudio", audioFile |-> 0, audioBuffer |-> <<>>,
   audioDuration |-> <<>>, audioDecoding |-> FALSE, status |-> "idle",
   errorMessage |-> "", requestId |-> 0, pending |-> {}, lastResult |-> "none"]

\* CutVideoTool after mount
CutIdle ==
  [file |-> 0, duration |-> Null, startTime |-> 0, endTime |-> Null,
   status |-> "idle", errorMessage |-> "", pc |-> "idle", trim |-> <<>>,
   started |-> <<>>]

LateIdle ==
  /\ cropJob = CropIdle
  /\ speedJob = SpeedIdle
  /\ renderJob = RenderIdle
  /\ audioPick = PickIdle
  /\ cutJob = CutIdle

EarlyIdle == JobsIdle /\ RectIdle /\ MatchIdle /\ BlendIdle /\ ResizeIdle

CropOthersIdle ==
  /\ EarlyIdle
  /\ speedJob = SpeedIdle
  /\ renderJob = RenderIdle
  /\ audioPick = PickIdle
  /\ cutJob = CutIdle

SpeedOthersIdle ==
  /\ EarlyIdle
  /\ cropJob = CropIdle
  /\ renderJob = RenderIdle
  /\ audioPick = PickIdle
  /\ cutJob = CutIdle

RenderOthersIdle ==
  /\ EarlyIdle
  /\ cropJob = CropIdle
  /\ speedJob = SpeedIdle
  /\ audioPick = PickIdle
  /\ cutJob = CutIdle

PickOthersIdle ==
  /\ EarlyIdle
  /\ cropJob = CropIdle
  /\ speedJob = SpeedIdle
  /\ renderJob = RenderIdle
  /\ cutJob = CutIdle

CutOthersIdle ==
  /\ EarlyIdle
  /\ cropJob = CropIdle
  /\ speedJob = SpeedIdle
  /\ renderJob = RenderIdle
  /\ audioPick = PickIdle

ToolsIdle == EarlyIdle /\ LateIdle

vars == <<mergeVars, toolVars>>

\* ------------------------------------------------------------ helpers
Max(a, b) == IF a >= b THEN a ELSE b

\* Math.round(a / b) for a >= 0, b > 0
Round(a, b) == (2 * a + b) \div (2 * b)

\* a slip: the share of the clips done after this one, on a scale of 100
ClipProgressOfHundred(k) == Round(k * 100, NumClips)

\* a slip: the share of the clips still to do
ClipProgressRemaining(k) == Round((NumClips - k) * 90, NumClips)

\* setProgress(Math.round((i / totalVideos) * 90)), i the 0-based index
ClipProgress(k) == Round((k - 1) * 90, NumClips)

\* adjusted.setTimestamp(sample.timestamp + currentTimestamp)
Rebase(ts, cur) == ts + cur

\* a slip: the sample's duration left out of the clip's measured end
MaxEndWithoutDuration(last, ts, dur) == Max(last, ts)

\* lastVideoTimestamp = Math.max(lastVideoTimestamp, sample.timestamp + sample.duration)
MaxEnd(last, ts, dur) == Max(last, ts + dur)

\* a slip: the cursor is never moved
AdvanceCursorStuck(cur, last) == cur

\* currentTimestamp += lastVideoTimestamp
AdvanceCursor(cur, last) == cur + last

\* checkSample.displayWidth !== targetWidth || checkSample.displayHeight !== targetHeight
NeedsResize(size, tgt) == size[1] # tgt[1] \/ size[2] # tgt[2]

NewSink == [ts |-> 0, n |-> 0]

\* finally: inputs.forEach((input) => input.dispose())
DisposeAll(inps, d) ==
  [s \in Sources |-> IF \E p \in 1..Len(inps) : inps[p] = s THEN d[s] + 1 ELSE d[s]]

\* catch (err): setErrorMessage(message); setStatus('error'); setProgress(0)
Catch(op, msg) ==
  /\ errorMessage' = msg
  /\ status' = "error"
  /\ progress' = 0
  /\ errors' = errors + 1
  /\ failure' = op
  /\ pc' = "done"

\* finally: every input pushed so far is disposed
Finally == disposed' = DisposeAll(inputs', disposed)

\* ---------------------------------------------------------------- Init
MergeInit ==
  /\ status = "ready"
  /\ progress = 0
  /\ errorMessage = ""
  /\ downloadName = FALSE
  /\ pc = "idle"
  /\ clipSize = [k \in Clips |-> NoSize]
  /\ inputs = <<>>
  /\ audioTracks = <<>>
  /\ target = NoSize
  /\ outState = "none"
  /\ outVideo = <<>>
  /\ outAudio = <<>>
  /\ currentTimestamp = 0
  /\ lastVideoTimestamp = 0
  /\ i = 1
  /\ nonEmpty = FALSE
  /\ resizedAudio = FALSE
  /\ sink = NewSink
  /\ opened = {}
  /\ disposed = [s \in Sources |-> 0]
  /\ unclosed = 0
  /\ errors = 0
  /\ failure = "none"
  /\ audioFailed = {}
  /\ cancelRequested = FALSE

Init == MergeInit /\ ToolsIdle

\* ------------------------------------------------------------- actions
\* mergeVideos is entered: the runtime is there or fails to load
Start ==
  /\ UNCHANGED toolVars
  /\ pc = "idle"
  /\ status = "ready"
  /\ \E runtime \in BOOLEAN :
       IF runtime
       THEN /\ status' = "converting"
            /\ progress' = 0
            /\ errorMessage' = ""
            /\ downloadName' = FALSE
            /\ pc' = "open"
            /\ UNCHANGED <<errors, failure>>
       ELSE /\ errorMessage' = "Unable to load Mediabunny. Please try again."
            /\ status' = "error"
            /\ errors' = errors + 1
            /\ failure' = "runtime"
            /\ pc' = "done"
            /\ UNCHANGED <<progress, downloadName>>
  /\ UNCHANGED <<clipSize, inputs, audioTracks, target, outState, outVideo,
                 outAudio, currentTimestamp, lastVideoTimestamp, i, nonEmpty,
                 resizedAudio, sink, opened, disposed, unclosed, audioFailed,
                 cancelRequested>>

\* one iteration of the loop that opens the files and reads their tracks
OpenInput ==
  /\ UNCHANGED toolVars
  /\ pc = "open"
  /\ LET k == Len(inputs) + 1 IN
     \E r \in {"ok", "noVideoTrack", "throws"}, audio \in BOOLEAN :
       /\ inputs' = Append(inputs, k)
       /\ opened' = opened \cup {k}
       /\ CASE r = "ok" ->
                 /\ audioTracks' = Append(audioTracks, audio)
                 /\ pc' = IF k = NumClips THEN "peek" ELSE "open"
                 /\ UNCHANGED <<status, progress, errorMessage, errors,
                                failure, disposed>>
            [] r = "noVideoTrack" ->
                 /\ Catch("open", "does not contain a video track")
                 /\ Finally
                 /\ UNCHANGED audioTracks
            [] r = "throws" ->
                 /\ Catch("open", "engine error")
                 /\ Finally
                 /\ UNCHANGED audioTracks
  /\ UNCHANGED <<downloadName, clipSize, target, outState, outVideo, outAudio,
                 currentTimestamp, lastVideoTimestamp, i, nonEmpty,
                 resizedAudio, sink, unclosed, audioFailed, cancelRequested>>

\* the first clip's first sample gives the target size and is closed
PeekFirst ==
  /\ UNCHANGED toolVars
  /\ pc = "peek"
  /\ inputs' = inputs
  /\ \E r \in {"sample", "empty", "throws"} :
       CASE r = "sample" ->
              /\ \E size \in Sizes :
                   /\ clipSize' = [clipSize EXCEPT ![1] = size]
                   /\ target' = size
              /\ pc' = "create"
              /\ UNCHANGED <<status, progress, errorMessage, errors, failure,
                             disposed>>
         [] r = "empty" ->
              /\ Catch("peek", "Unable to read first video dimensions.")
              /\ Finally
              /\ UNCHANGED <<target, clipSize>>
         [] r = "throws" ->
              /\ Catch("peek", "engine error")
              /\ Finally
              /\ UNCHANGED <<target, clipSize>>
  /\ UNCHANGED <<downloadName, audioTracks, outState, outVideo,
                 outAudio, currentTimestamp, lastVideoTimestamp, i, nonEmpty,
                 resizedAudio, sink, opened, unclosed, audioFailed,
                 cancelRequested>>

\* the output with its video and audio track is created and started
CreateOutput ==
  /\ UNCHANGED toolVars
  /\ pc = "create"
  /\ inputs' = inputs
  /\ \E r \in {"ok", "throws"} :
       CASE r = "ok" ->
              /\ outState' = "started"
              /\ currentTimestamp' = 0
              /\ i' = 1
              /\ pc' = "clip"
              /\ UNCHANGED <<status, progress, errorMessage, errors, failure,
                             disposed>>
         [] r = "throws" ->
              /\ outState' = "created"
              /\ Catch("start", "engine error")
              /\ Finally
              /\ UNCHANGED <<currentTimestamp, i>>
  /\ UNCHANGED <<downloadName, clipSize, audioTracks, target, outVideo,
                 outAudio, lastVideoTimestamp, nonEmpty, resizedAudio, sink,
                 opened, unclosed, audioFailed, cancelRequested>>

\* head of the per-clip loop: progress, then the size check of a later clip
\* (its first sample is read and closed)
ClipStart ==
  /\ UNCHANGED toolVars
  /\ pc = "clip"
  /\ inputs' = inputs
  /\ \E r \in {"first", "sample", "empty", "throws"} :
       CASE r = "first" ->
              /\ i = 1
              /\ progress' = ClipProgress(i)
              /\ nonEmpty' = TRUE
              /\ pc' = "video"
              /\ UNCHANGED <<status, errorMessage, errors, failure, disposed,
                             clipSize>>
         [] r = "sample" ->
              /\ i > 1
              /\ progress' = ClipProgress(i)
              /\ nonEmpty' = TRUE
              /\ \E size \in Sizes :
                   /\ clipSize' = [clipSize EXCEPT ![i] = size]
                   /\ pc' = IF NeedsResize(size, target)
                            THEN "convert" ELSE "video"
              /\ UNCHANGED <<status, errorMessage, errors, failure, disposed>>
         [] r = "empty" ->
              /\ i > 1
              /\ progress' = ClipProgress(i)
              /\ nonEmpty' = FALSE
              /\ pc' = "video"
              /\ UNCHANGED <<status, errorMessage, errors, failure, disposed,
                             clipSize>>
         [] r = "throws" ->
              /\ i > 1
              /\ Catch("check", "engine error")
              /\ Finally
              /\ UNCHANGED <<nonEmpty, clipSize>>
  /\ sink' = NewSink
  /\ lastVideoTimestamp' = 0
  /\ UNCHANGED <<downloadName, audioTracks, target, outState,
                 outVideo, outAudio, currentTimestamp, i, resizedAudio, opened,
                 unclosed, audioFailed, cancelRequested>>

\* the resize sub-pass of a clip whose first sample differs from the target:
\* Conversion.init, execute, and the reopening of the resized bytes
Convert ==
  /\ UNCHANGED toolVars
  /\ pc = "convert"
  /\ inputs' = inputs
  /\ \E r \in {"initThrows", "invalid", "executeThrows", "noBuffer",
               "reopenThrows", "noTracks", "ok"}, audio \in BOOLEAN :
       CASE r \in {"initThrows", "executeThrows"} ->
              /\ Catch("convert", "engine error")
              /\ Finally
              /\ UNCHANGED <<opened, resizedAudio>>
         [] r \in {"invalid", "noBuffer"} ->
              /\ pc' = "video"
              /\ UNCHANGED <<status, progress, errorMessage, errors, failure,
                             disposed, opened, resizedAudio>>
         [] r = "reopenThrows" ->
              /\ opened' = opened \cup {ResizedOf(i)}
              /\ Catch("convert", "engine error")
              /\ Finally
              /\ UNCHANGED resizedAudio
         [] r = "noTracks" ->
              /\ opened' = opened \cup {ResizedOf(i)}
              /\ disposed' = [disposed EXCEPT ![ResizedOf(i)] = @ + 1]
              /\ pc' = "video"
              /\ UNCHANGED <<status, progress, errorMessage, errors, failure,
                             resizedAudio>>
         [] r = "ok" ->
              /\ audio => audioTracks[i]
              /\ opened' = opened \cup {ResizedOf(i)}
              /\ resizedAudio' = audio
              /\ pc' = "rvideo"
              /\ UNCHANGED <<status, progress, errorMessage, errors, failure,
                             disposed>>
  /\ UNCHANGED <<downloadName, clipSize, audioTracks, target, outState,
                 outVideo, outAudio, currentTimestamp, lastVideoTimestamp, i,
                 nonEmpty, sink, unclosed, audioFailed, cancelRequested>>

\* one turn of a video drain loop at position p ("video": the clip's own
\* track, "rvideo": the resized clip's track)
DrainVideoAt(p) ==
  /\ UNCHANGED toolVars
  /\ pc = p
  /\ inputs' = inputs
  /\ \E r \in {"done", "sample", "addThrows", "readThrows"}, dur \in Durs :
       CASE r = "done" ->
              /\ nonEmpty => sink.n >= 1
              /\ pc' = IF p = "video" THEN "audio" ELSE "raudio"
              /\ sink' = NewSink
              /\ UNCHANGED <<status, progress, errorMessage, errors, failure,
                             disposed, outVideo, lastVideoTimestamp, unclosed>>
         [] r = "sample" ->
              /\ nonEmpty /\ Len(outVideo) < MaxSamples
              /\ outVideo' = Append(outVideo,
                   [clip |-> i,
                    ts |-> Rebase(sink.ts, currentTimestamp),
                    src |-> sink.ts,
                    dur |-> dur,
                    size |-> IF p = "rvideo" THEN target ELSE clipSize[i],
                    resized |-> (p = "rvideo")])
              /\ lastVideoTimestamp' = MaxEnd(lastVideoTimestamp, sink.ts, dur)
              /\ sink' = [ts |-> sink.ts + dur, n |-> sink.n + 1]
              /\ UNCHANGED <<status, progress, errorMessage, errors, failure,
                             disposed, pc, unclosed>>
         [] r = "addThrows" ->
              /\ nonEmpty /\ Len(outVideo) < MaxSamples
              /\ unclosed' = unclosed + 2
              /\ Catch("videoAdd", "engine error")
              /\ Finally
              /\ UNCHANGED <<outVideo, lastVideoTimestamp, sink>>
         [] r = "readThrows" ->
              /\ Catch("videoRead", "engine error")
              /\ Finally
              /\ UNCHANGED <<outVideo, lastVideoTimestamp, sink, unclosed>>
  /\ UNCHANGED <<downloadName, clipSize, audioTracks, target, outState,
                 outAudio, currentTimestamp, i, nonEmpty, resizedAudio, opened,
                 audioFailed, cancelRequested>>

DrainResizedVideo == DrainVideoAt("rvideo")

DrainVideo == DrainVideoAt("video")

\* the end of a clip's turn: the cursor moves on; on the resized path the
\* reopened input is disposed before `continue`
FinishClip(p) ==
  /\ currentTimestamp' = AdvanceCursor(currentTimestamp, lastVideoTimestamp)
  /\ disposed' = IF p = "raudio"
                 THEN [disposed EXCEPT ![ResizedOf(i)] = @ + 1]
                 ELSE disposed
  /\ i' = i + 1
  /\ pc' = IF i = NumClips THEN "finalize" ELSE "clip"
  /\ sink' = NewSink

\* a slip: no try around the audio loop, its error reaches the outer catch
AudioCatchRethrows(p) ==
  /\ audioFailed' = audioFailed \cup {i}
  /\ inputs' = inputs
  /\ Catch("audio", "engine error")
  /\ Finally
  /\ UNCHANGED <<currentTimestamp, i, sink>>

\* the audio try block threw: the catch is empty and the turn goes on
AudioCatch(p) ==
  /\ audioFailed' = audioFailed \cup {i}
  /\ FinishClip(p)
  /\ UNCHANGED <<status, progress, errorMessage, errors, failure, inputs>>

\* the audio part of a clip's turn at position p ("audio", "raudio")
DrainAudioAt(p) ==
  /\ UNCHANGED toolVars
  /\ pc = p
  /\ LET hasTrack == IF p = "audio" THEN audioTracks[i] ELSE resizedAudio IN
     \E r \in {"noTrack", "done", "sample", "addThrows", "readThrows"},
        dur \in AudioDurs :
       CASE r = "noTrack" ->
              /\ ~hasTrack
              /\ FinishClip(p)
              /\ UNCHANGED <<outAudio, unclosed, audioFailed, status, progress,
                             errorMessage, errors, failure, inputs>>
         [] r = "done" ->
              /\ hasTrack
              /\ FinishClip(p)
              /\ UNCHANGED <<outAudio, unclosed, audioFailed, status, progress,
                             errorMessage, errors, failure, inputs>>
         [] r = "sample" ->
              /\ hasTrack /\ Len(outAudio) < MaxSamples
              /\ outAudio' = Append(outAudio,
                   [clip |-> i, ts |-> Rebase(sink.ts, currentTimestamp)])
              /\ sink' = [ts |-> sink.ts + dur, n |-> sink.n + 1]
              /\ UNCHANGED <<unclosed, audioFailed, status, progress,
                             errorMessage, errors, failure, inputs, pc, i,
                             currentTimestamp, disposed>>
         [] r = "addThrows" ->
              /\ hasTrack /\ Len(outAudio) < MaxSamples
              /\ unclosed' = unclosed + 2
              /\ AudioCatch(p)
              /\ UNCHANGED outAudio
         [] r = "readThrows" ->
              /\ hasTrack
              /\ AudioCatch(p)
              /\ UNCHANGED <<outAudio, unclosed>>
  /\ UNCHANGED <<downloadName, clipSize, audioTracks, target, outState,
                 outVideo, lastVideoTimestamp, nonEmpty, resizedAudio, opened,
                 cancelRequested>>

DrainResizedAudio == DrainAudioAt("raudio")

DrainAudio == DrainAudioAt("audio")

\* after the loop: the sources are closed, the output finalized, the file
\* handed over; then the finally block
Finalize ==
  /\ UNCHANGED toolVars
  /\ pc = "finalize"
  /\ inputs' = inputs
  /\ \E r \in {"ok", "throws", "noBuffer"} :
       CASE r = "ok" ->
              /\ outState' = "finalized"
              /\ downloadName' = TRUE
              /\ progress' = 100
              /\ status' = "success"
              /\ pc' = "done"
              /\ UNCHANGED <<errorMessage, errors, failure>>
         [] r = "throws" ->
              /\ Catch("finalize", "engine error")
              /\ UNCHANGED <<outState, downloadName>>
         [] r = "noBuffer" ->
              /\ outState' = "finalized"
              /\ Catch("noData", "No video data produced.")
              /\ UNCHANGED downloadName
  /\ Finally
  /\ UNCHANGED <<clipSize, audioTracks, target, outVideo, outAudio,
                 currentTimestamp, lastVideoTimestamp, i, nonEmpty,
                 resizedAudio, sink, opened, unclosed, audioFailed,
                 cancelRequested>>

\* the user asks the running job to stop; mergeVideos holds no flag, ref or
\* handler that reads the request
RequestCancel ==
  /\ UNCHANGED toolVars
  /\ pc \in {"clip", "convert", "video", "rvideo", "audio", "raudio"}
  /\ ~cancelRequested
  /\ cancelRequested' = TRUE
  /\ UNCHANGED <<status, progress, errorMessage, downloadName, pc, clipSize,
                 inputs, audioTracks, target, outState, outVideo, outAudio,
                 currentTimestamp, lastVideoTimestamp, i, nonEmpty,
                 resizedAudio, sink, opened, disposed, unclosed, errors,
                 failure, audioFailed>>

\* the merge job
Next ==
  \/ Start
  \/ OpenInput
  \/ PeekFirst
  \/ CreateOutput
  \/ ClipStart
  \/ Convert
  \/ DrainResizedVideo
  \/ DrainResizedAudio
  \/ DrainVideo
  \/ DrainAudio
  \/ Finalize

Spec == Init /\ [][Next]_vars

\* the merge job with a user who may ask for it to stop
NextCancel == Next \/ RequestCancel

SpecCancel == Init /\ [][NextCancel]_vars

\* ------------------------------------------------- the claims' notions
\* the video samples of clip k in the output
SamplesOf(k) == {p \in 1..Len(outVideo) : outVideo[p].clip = k}

\* clip k's measured span: the largest end (timestamp + duration, before
\* rebasing) of its video samples, 0 when it has none
Span(k) ==
  LET ends == {outVideo[p].src + outVideo[p].dur : p \in SamplesOf(k)}
  IN IF ends = {} THEN 0 ELSE CHOOSE e \in ends : \A f \in ends : f <= e

RECURSIVE SumSpans(_)
SumSpans(k) == IF k = 0 THEN 0 ELSE SumSpans(k - 1) + Span(k)

\* ----------------------------------------------------------------- C1
\* C1: video samples are appended clip by clip in list order, and every
\* sample of a later clip is written with a rebased timestamp at least the
\* largest rebased timestamp written for an earlier clip (the sources'
\* timestamps are >= 0).
C1_VideoInClipOrder ==
  \A p, q \in 1..Len(outVideo) :
    p < q =>
      /\ outVideo[p].clip <= outVideo[q].clip
      /\ outVideo[p].clip < outVideo[q].clip => outVideo[p].ts <= outVideo[q].ts

\* two samples of clip 1 (the second one past the cursor), then one of clip 2
C1_Witness ==
  /\ Len(outVideo) >= 3
  /\ outVideo[2].clip = 1
  /\ outVideo[2].src > 0
  /\ outVideo[3].clip = 2

\* ----------------------------------------------------------------- C2
\* C2: the timestamps of the samples appended to the output audio track
\* are non-decreasing in write order over the whole job.
C2_AudioMonotonic ==
  \A p, q \in 1..Len(outAudio) : p < q => outAudio[p].ts <= outAudio[q].ts

\* ----------------------------------------------------------------- C3
\* C3: currentTimestamp is the sum of the measured spans of the clips
\* processed so far; it never decreases, and it changes only in the step
\* that ends a clip's turn, after the clip's video sequence was drained
\* (direct and resized path).
C3_CursorIsSum == currentTimestamp = SumSpans(i - 1)

C3_CursorStep ==
  /\ currentTimestamp' >= currentTimestamp
  /\ currentTimestamp' # currentTimestamp =>
       /\ pc \in {"audio", "raudio"}
       /\ i' = i + 1
       /\ outVideo' = outVideo

\* C3: the cursor is the sum of the processed clips' spans in every state,
\* and every step keeps or raises it, raising it only at the end of a turn.
C3_Cursor == []C3_CursorIsSum /\ [][C3_CursorStep]_vars

\* both clips processed, the second one through its resized samples
C3_Witness ==
  /\ pc = "finalize"
  /\ currentTimestamp = 3
  /\ \E p \in 1..Len(outVideo) : outVideo[p].resized

\* ----------------------------------------------------------------- C4
\* C4: every video sample appended has the size of the first clip's first
\* sample; a later clip of another size is written only through its
\* resized samples.
C4_AllAtTargetSize ==
  \A p \in 1..Len(outVideo) :
    /\ outVideo[p].size = target
    /\ NeedsResize(clipSize[outVideo[p].clip], target) => outVideo[p].resized

\* ----------------------------------------------------------------- C5
\* C5: when a video operation fails after the output was created, the job
\* ends with the output cancelled, never finalized, and one error surfaced.
C5_VideoFailureCancels ==
  failure \in {"check", "convert", "videoRead", "videoAdd"} =>
    /\ outState = "cancelled"
    /\ status = "error"
    /\ errors = 1

\* ----------------------------------------------------------------- C6
\* C6: when the job has ended, every source it opened (the clips' inputs
\* and the inputs reopened from resized bytes) was disposed exactly once.
C6_DisposedOnce ==
  pc = "done" => \A s \in opened : disposed[s] = 1

\* ----------------------------------------------------------------- C7
\* C7: when the job has ended, every sample pulled and every clone made
\* was closed.
C7_AllClosed ==
  pc = "done" => unclosed = 0

\* ----------------------------------------------------------------- C8
\* C8: a failure of a clip's audio is not propagated: the loop goes on to
\* the next clip with the cursor advanced by the clip's video span (its
\* video samples stay in the output), and unless something else fails the
\* job ends finalized, with every clip processed.
C8_AudioFailureSwallowed ==
  audioFailed # {} =>
    /\ \A k \in audioFailed : k < i
    /\ currentTimestamp = SumSpans(i - 1)
    /\ pc = "done" /\ failure = "none" =>
         /\ outState = "finalized"
         /\ status = "success"
         /\ i = NumClips + 1

\* clip 1's audio failed; its video is in the output, clip 2's audio was
\* written after it at the advanced cursor, and the job was finalized
C8_Witness ==
  /\ pc = "done"
  /\ audioFailed = {1}
  /\ outState = "finalized"
  /\ SamplesOf(1) # {}
  /\ \E p \in 1..Len(outAudio) :
       outAudio[p].clip = 2 /\ outAudio[p].ts = Span(1)

\* ----------------------------------------------------------------- C9
\* C9: a processed clip without an audio track has audio (silence) in the
\* output audio track over its span.
C9_SilenceForMissingAudio ==
  \A k \in 1..(i - 1) :
    (~audioTracks[k] /\ Span(k) > 0) =>
      \E p \in 1..Len(outAudio) : outAudio[p].clip = k

\* ---------------------------------------------------------------- C10
\* C10: once the user has asked the job to stop, no further sample is
\* written and the output is not finalized; the job ends with the output
\* cancelled and every opened source disposed once.
C10_CancelStep ==
  cancelRequested =>
    /\ outVideo' = outVideo
    /\ outAudio' = outAudio
    /\ outState' # "finalized"

C10_CancelEnd ==
  (cancelRequested /\ pc = "done") =>
    /\ outState = "cancelled"
    /\ \A s \in opened : disposed[s] = 1

\* C10: after a request to stop no step writes a sample or finalizes, and
\* the job ends with the output cancelled and the sources disposed once.
C10_CancelStops == []C10_CancelEnd /\ [][C10_CancelStep]_vars

\* ====================================================================
\* Part 2: the job button of ReplaceAudioTool, SpeedControlTool and
\* MergeVideosTool.  The runtime is loaded (mediabunny is not null and
\* loading is false) and the files are chosen, so the button is disabled
\* by status === 'converting' alone.  A call of the job function runs up
\* to its next await in one step.
\* ====================================================================
InitJobs ==
  /\ MergeInit
  /\ LateIdle
  /\ RectIdle
  /\ MatchIdle
  /\ BlendIdle
  /\ ResizeIdle
  /\ tool \in Tools
  /\ toolStatus = "ready"
  /\ jobs = [j \in Jobs |-> "none"]

\* const disabled = converting || !readyToReplace || loading
disabled == toolStatus = "converting"

\* a call that has opened, or is opening, its inputs and has not returned
Running(j) == jobs[j] \notin {"none", "done"}

\* catch (err): setStatus('error'); the call returns through finally
JobCatch(j) ==
  /\ toolStatus' = "error"
  /\ jobs' = [jobs EXCEPT ![j] = "done"]

\* onClick of the enabled button: the job function runs to its first
\* await.  mergeVideos calls setStatus('converting') before it, replaceAudio
\* and convert reach createBlobInput with the status untouched.
Click ==
  /\ ~disabled
  /\ \E j \in Jobs :
       /\ jobs[j] = "none"
       /\ \A k \in Jobs : k < j => jobs[k] # "none"
       /\ jobs' = [jobs EXCEPT ![j] = "open"]
       /\ toolStatus' = IF tool = "mergeVideos" THEN "converting" ELSE toolStatus
  /\ UNCHANGED <<tool, notJobVars>>

\* await createBlobInput(...) settles
JobOpen ==
  /\ \E j \in Jobs, r \in {"ok", "throws"} :
       /\ jobs[j] = "open"
       /\ CASE r = "ok" ->
                 /\ jobs' = [jobs EXCEPT ![j] =
                               IF tool = "mergeVideos" THEN "start" ELSE "tracks"]
                 /\ UNCHANGED toolStatus
            [] r = "throws" -> JobCatch(j)
  /\ UNCHANGED <<tool, notJobVars>>

\* await getVideoTracks() / getAudioTracks() settles; after the last of
\* them the output is created and setStatus('converting') is called
JobTracks ==
  /\ \E j \in Jobs, r \in {"ok", "noVideoTrack", "throws"} :
       /\ jobs[j] \in {"tracks", "audioTracks"}
       /\ CASE r = "ok" /\ tool = "speedControl" /\ jobs[j] = "tracks" ->
                 /\ jobs' = [jobs EXCEPT ![j] = "audioTracks"]
                 /\ UNCHANGED toolStatus
            [] r = "ok" /\ ~(tool = "speedControl" /\ jobs[j] = "tracks") ->
                 /\ jobs' = [jobs EXCEPT ![j] = "start"]
                 /\ toolStatus' = "converting"
            [] r = "noVideoTrack" /\ tool = "speedControl"
                                  /\ jobs[j] = "tracks" ->
                 /\ jobs' = [jobs EXCEPT ![j] = "audioTracks"]
                 /\ UNCHANGED toolStatus
            [] OTHER -> JobCatch(j)
  /\ UNCHANGED <<tool, notJobVars>>

\* await output.start() settles
JobStart ==
  /\ \E j \in Jobs, r \in {"ok", "throws"} :
       /\ jobs[j] = "start"
       /\ CASE r = "ok" ->
                 /\ jobs' = [jobs EXCEPT ![j] = "write"]
                 /\ UNCHANGED toolStatus
            [] r = "throws" -> JobCatch(j)
  /\ UNCHANGED <<tool, notJobVars>>

\* an await of the packet / sample loop settles: one more sample is
\* written, or the loop is over and output.finalize() is awaited
JobWrite ==
  /\ \E j \in Jobs, r \in {"more", "end", "throws"} :
       /\ jobs[j] = "write"
       /\ CASE r = "more" -> UNCHANGED <<jobs, toolStatus>>
            [] r = "end" ->
                 /\ jobs' = [jobs EXCEPT ![j] = "finalize"]
                 /\ UNCHANGED toolStatus
            [] r = "throws" -> JobCatch(j)
  /\ UNCHANGED <<tool, notJobVars>>

\* await output.finalize() settles
JobFinalize ==
  /\ \E j \in Jobs, r \in {"ok", "throws"} :
       /\ jobs[j] = "finalize"
       /\ CASE r = "ok" ->
                 /\ jobs' = [jobs EXCEPT ![j] = "done"]
                 /\ toolStatus' = "success"
            [] r = "throws" -> JobCatch(j)
  /\ UNCHANGED <<tool, notJobVars>>

NextJobs ==
  \/ Click
  \/ JobOpen
  \/ JobTracks
  \/ JobStart
  \/ JobWrite
  \/ JobFinalize

SpecJobs == InitJobs /\ [][NextJobs]_vars

\* C11: for one tool instance at most one call of the job function has
\* opened inputs or writes to an output and has not finished, whatever the
\* interleaving of button clicks with the awaits inside the job function
C11_SingleJob == Cardinality({j \in Jobs : Running(j)}) <= 1

\* ====================================================================
\* The progress reports of the merge job (Spec)
\* ====================================================================
\* C12: progress 100 is reported only after output.finalize() resolved and
\* the output bytes exist; every value reported before is at most 90
C12_HundredOnlyAfterFinalize ==
  /\ progress = 100 => outState = "finalized" /\ downloadName /\ status = "success"
  /\ progress # 100 => progress <= 90
  /\ \A k \in Clips : ClipProgress(k) <= 90

\* the job ended well: 100 was reported over a finalized output with samples
C12_Witness ==
  /\ progress = 100
  /\ outState = "finalized"
  /\ Len(outVideo) > 0
  /\ i > NumClips

\* C13 as stated: from its start until it terminates, by success or by
\* error, the progress values of one merge job never decrease and lie in
\* 0..100
C13_NonDecreasing ==
  [](progress \in 0..100) /\ [][progress' >= progress]_vars

\* C13, amended: the progress values lie in 0..100 and never decrease while
\* the job runs and when it succeeds; the catch block reports 0 with the
\* status 'error'
C13_NonDecreasingUntilError ==
  /\ [](progress \in 0..100)
  /\ [][IF status' = "error" THEN progress' = 0 ELSE progress' >= progress]_vars

\* the second clip's samples were being written (progress had risen above
\* 0) when the job failed and the catch block reset the progress
C13_Witness ==
  /\ status = "error"
  /\ progress = 0
  /\ ClipProgress(2) > 0
  /\ \E p \in 1..Len(outVideo) : outVideo[p].clip = 2

\* ====================================================================
\* Part 3: the pointer surface of CropVideoTool (crop-video-tool.tsx) and
\* AddWatermarkTool (add-watermark-tool.tsx).  Pointer positions are px
\* relative to the container's left/top corner; ratios are exact
\* multiples of 1/One (floating-point rounding is not modelled).
\* ====================================================================
Min(a, b) == IF a <= b THEN a ELSE b

\* const MIN_SELECTION_PX = 32
MIN_SELECTION_PX == 32
\* const MIN_SIZE_RATIO = 0.08
MIN_SIZE_RATIO == 800

\* containerRef.current.getBoundingClientRect(): the surface's size in px
ContainerSize == [width |-> 800, height |-> 400]
\* event.clientX - rect.left, event.clientY - rect.top of a pointer on the
\* surface, and of a captured pointer that may have left it
PointXs == {0, 400, 800}
PointYs == {0, 400}
CapturedXs == PointXs \cup {850}
\* where a pointer goes down on the surface
DownPoints == {<<0, 0>>, <<400, 0>>, <<800, 400>>}
PointerIds == {1, 2}
\* watermarkSize.width / watermarkSize.height
WatermarkAspects == {2}

CropHandles == {"top-left", "top", "top-right", "right", "bottom-right",
                "bottom", "bottom-left", "left"}
WatermarkHandles == {"top-left", "top-right", "bottom-left", "bottom-right"}

\* px / size as a ratio, and a ratio of size in whole px
ToRatio(px, size) == (px * One) \div size
ToPx(ratio, size) == (ratio * size) \div One

\* clampNumber on a value that is a number
clampNumber(value, min, max) ==
  IF min > max THEN min ELSE Min(Max(value, min), max)

\* an event coordinate relative to the container: a number of px or NaN
NaN == [nan |-> TRUE, value |-> 0]
Number(v) == [nan |-> FALSE, value |-> v]
EventXs == {Number(v) : v \in CapturedXs} \cup {NaN}
EventYs == {Number(v) : v \in PointYs} \cup {NaN}
MoveEvents == {"move", "moveNaN"}

\* clampNumber on an event coordinate: if (Number.isNaN(value)) return min
clampCoordinate(c, min, max) ==
  IF c.nan THEN min ELSE clampNumber(c.value, min, max)

\* crop-video-tool.tsx clampRect
cropClampRect(rect, minWidth, minHeight) ==
  LET width == Max(rect.width, minWidth)
      height == Max(rect.height, minHeight)
      x0 == clampNumber(rect.x, 0, One - width)
      y0 == clampNumber(rect.y, 0, One - height)
      x == IF x0 + width > One THEN Max(0, One - width) ELSE x0
      y == IF y0 + height > One THEN Max(0, One - height) ELSE y0
  IN [x |-> x, y |-> y,
      width |-> clampNumber(width, minWidth, One),
      height |-> clampNumber(height, minHeight, One)]

\* crop-video-tool.tsx buildRectFromPoints
buildRectFromPoints(start, current, container, minWidth, minHeight) ==
  LET sx == clampNumber(start[1], 0, container.width)
      sy == clampNumber(start[2], 0, container.height)
      cx == clampNumber(current[1], 0, container.width)
      cy == clampNumber(current[2], 0, container.height)
      left0 == Min(sx, cx)
      right0 == Max(sx, cx)
      top0 == Min(sy, cy)
      bottom0 == Max(sy, cy)
      minWidthPx == ToPx(minWidth, container.width)
      minHeightPx == ToPx(minHeight, container.height)
      narrow == right0 - left0 < minWidthPx
      flat == bottom0 - top0 < minHeightPx
      right == IF narrow /\ sx <= cx
               THEN clampNumber(left0 + minWidthPx, 0, container.width)
               ELSE right0
      left == IF narrow /\ ~(sx <= cx)
              THEN clampNumber(right0 - minWidthPx, 0, container.width)
              ELSE left0
      bottom == IF flat /\ sy <= cy
                THEN clampNumber(top0 + minHeightPx, 0, container.height)
                ELSE bottom0
      top == IF flat /\ ~(sy <= cy)
             THEN clampNumber(bottom0 - minHeightPx, 0, container.height)
             ELSE top0
      normalized == [x |-> ToRatio(left, container.width),
                     y |-> ToRatio(top, container.height),
                     width |-> ToRatio(right - left, container.width),
                     height |-> ToRatio(bottom - top, container.height)]
  IN cropClampRect(normalized, minWidth, minHeight)

\* a slip: a left or top handle moves the rect and keeps its size
cropApplyResizeKeepSize(initial, handle, deltaX, deltaY, minWidth, minHeight) ==
  LET onLeft == handle \in {"left", "top-left", "bottom-left"}
      onRight == handle \in {"right", "top-right", "bottom-right"}
      onTop == handle \in {"top", "top-left", "top-right"}
      onBottom == handle \in {"bottom", "bottom-left", "bottom-right"}
      nextX == clampNumber(initial.x + deltaX, 0,
                           initial.x + initial.width - minWidth)
      x == IF onLeft THEN nextX ELSE initial.x
      width == IF onRight THEN clampNumber(initial.width + deltaX, minWidth, One - x)
               ELSE initial.width
      nextY == clampNumber(initial.y + deltaY, 0,
                           initial.y + initial.height - minHeight)
      y == IF onTop THEN nextY ELSE initial.y
      height == IF onBottom THEN clampNumber(initial.height + deltaY, minHeight, One - y)
                ELSE initial.height
  IN cropClampRect([x |-> x, y |-> y, width |-> width, height |-> height],
                   minWidth, minHeight)

\* crop-video-tool.tsx applyResize
cropApplyResize(initial, handle, deltaX, deltaY, minWidth, minHeight) ==
  LET onLeft == handle \in {"left", "top-left", "bottom-left"}
      onRight == handle \in {"right", "top-right", "bottom-right"}
      onTop == handle \in {"top", "top-left", "top-right"}
      onBottom == handle \in {"bottom", "bottom-left", "bottom-right"}
      nextX == clampNumber(initial.x + deltaX, 0,
                           initial.x + initial.width - minWidth)
      x == IF onLeft THEN nextX ELSE initial.x
      width1 == IF onLeft THEN initial.width + (initial.x - nextX)
                ELSE initial.width
      width == IF onRight THEN clampNumber(width1 + deltaX, minWidth, One - x)
               ELSE width1
      nextY == clampNumber(initial.y + deltaY, 0,
                           initial.y + initial.height - minHeight)
      y == IF onTop THEN nextY ELSE initial.y
      height1 == IF onTop THEN initial.height + (initial.y - nextY)
                 ELSE initial.height
      height == IF onBottom THEN clampNumber(height1 + deltaY, minHeight, One - y)
                ELSE height1
  IN cropClampRect([x |-> x, y |-> y, width |-> width, height |-> height],
                   minWidth, minHeight)

\* add-watermark-tool.tsx clampRect
watermarkClampRect(rect, minWidth, minHeight) ==
  LET width == clampNumber(rect.width, minWidth, One)
      height == clampNumber(rect.height, minHeight, One)
  IN [width |-> width, height |-> height,
      x |-> clampNumber(rect.x, 0, One - width),
      y |-> clampNumber(rect.y, 0, One - height)]

\* add-watermark-tool.tsx applyResize
watermarkApplyResize(initial, handle, deltaX, deltaY, minWidth, minHeight) ==
  LET onLeft == handle \in {"top-left", "bottom-left"}
      onTop == handle \in {"top-left", "top-right"}
      newX == clampNumber(initial.x + deltaX, 0,
                          initial.x + initial.width - minWidth)
      newY == clampNumber(initial.y + deltaY, 0,
                          initial.y + initial.height - minHeight)
      x == IF onLeft THEN newX ELSE initial.x
      y == IF onTop THEN newY ELSE initial.y
      width == IF onLeft THEN initial.width - (newX - initial.x)
               ELSE clampNumber(initial.width + deltaX, minWidth, One - initial.x)
      height == IF onTop THEN initial.height - (newY - initial.y)
                ELSE clampNumber(initial.height + deltaY, minHeight, One - initial.y)
  IN watermarkClampRect([x |-> x, y |-> y, width |-> width, height |-> height],
                        minWidth, minHeight)

\* the effect that places a fresh watermark: a quarter of the width, the
\* image's aspect kept, centred
InitialWatermarkRect(aspect) ==
  LET baseWidthRatio == clampNumber(One \div 4, MIN_SIZE_RATIO, (9 * One) \div 10)
      tall == baseWidthRatio \div aspect > (9 * One) \div 10
      heightRatio0 == IF tall THEN (9 * One) \div 10 ELSE baseWidthRatio \div aspect
      widthRatio0 == IF tall THEN heightRatio0 * aspect ELSE baseWidthRatio
      widthRatio == clampNumber(widthRatio0, MIN_SIZE_RATIO, (95 * One) \div 100)
      heightRatio == clampNumber(heightRatio0, MIN_SIZE_RATIO, (95 * One) \div 100)
  IN [width |-> widthRatio, height |-> heightRatio,
      x |-> clampNumber((One - widthRatio) \div 2, 0, One - widthRatio),
      y |-> clampNumber((One - heightRatio) \div 2, 0, One - heightRatio)]

\* const minWidth / minHeight of handlePointerMove
minWidth ==
  IF rectTool = "crop"
  THEN Min(ToRatio(MIN_SELECTION_PX, ContainerSize.width), One)
  ELSE MIN_SIZE_RATIO
minHeight ==
  IF rectTool = "crop"
  THEN Min(ToRatio(MIN_SELECTION_PX, ContainerSize.height), One)
  ELSE MIN_SIZE_RATIO

\* where the overlay draws a handle of the rect, in px
HandlePoint(rect, handle) ==
  LET hx == IF handle \in {"left", "top-left", "bottom-left"} THEN rect.x
            ELSE IF handle \in {"right", "top-right", "bottom-right"}
                 THEN rect.x + rect.width
                 ELSE rect.x + rect.width \div 2
      hy == IF handle \in {"top", "top-left", "top-right"} THEN rect.y
            ELSE IF handle \in {"bottom", "bottom-left", "bottom-right"}
                 THEN rect.y + rect.height
                 ELSE rect.y + rect.height \div 2
  IN <<ToPx(hx, ContainerSize.width), ToPx(hy, ContainerSize.height)>>

\* a point of the rect's body, in px: its top-left corner
BodyPoint(rect) ==
  <<ToPx(rect.x, ContainerSize.width), ToPx(rect.y, ContainerSize.height)>>

\* a surface point that is not on the rect's body
OffBody(pt) ==
  IF selection = <<>> THEN TRUE
  ELSE LET r == selection[1]
           x == ToRatio(pt[1], ContainerSize.width)
           y == ToRatio(pt[2], ContainerSize.height)
       IN ~(r.x < x /\ x < r.x + r.width /\ r.y < y /\ y < r.y + r.height)

InitRect ==
  /\ MergeInit
  /\ LateIdle
  /\ JobsIdle
  /\ MatchIdle
  /\ BlendIdle
  /\ ResizeIdle
  /\ rectTool \in {"crop", "watermark"}
  /\ selection = <<>>
  /\ interaction = NoInteraction
  /\ capture = 0
  /\ lastEvent = NoEvent

\* a slip: the interaction ends only for the pointer that holds the capture
EndInteractionIfCaptured(current, pointerId, held) ==
  IF held = pointerId THEN NoInteraction ELSE current

\* handlePointerUp: interactionRef.current = null
EndInteraction(current, pointerId, held) == NoInteraction

\* CropVideoTool.handlePointerDown
CropPointerDown ==
  /\ rectTool = "crop"
  /\ \E id \in PointerIds, button \in {0, 2},
        hit \in CropHandles \cup {"body", "surface"},
        pt \in DownPoints :
       /\ lastEvent' = "down"
       /\ hit # "surface" => selection # <<>> /\ pt = <<0, 0>>
       /\ button # 0 => hit = "surface" /\ pt = <<0, 0>>
       /\ hit = "surface" => OffBody(pt)
       /\ CASE button # 0 -> UNCHANGED <<selection, interaction, capture>>
            [] button = 0 /\ hit \in CropHandles ->
                 /\ interaction' = [kind |-> "resize", pointerId |-> id,
                                    origin |-> HandlePoint(selection[1], hit),
                                    initialRect |-> selection[1],
                                    handle |-> hit]
                 /\ capture' = id
                 /\ UNCHANGED selection
            [] button = 0 /\ hit = "body" ->
                 /\ interaction' = [kind |-> "move", pointerId |-> id,
                                    origin |-> BodyPoint(selection[1]),
                                    initialRect |-> selection[1],
                                    handle |-> "none"]
                 /\ capture' = id
                 /\ UNCHANGED selection
            [] button = 0 /\ hit = "surface" ->
                 /\ interaction' = [kind |-> "create", pointerId |-> id,
                                    origin |-> pt,
                                    initialRect |-> ZeroRect,
                                    handle |-> "none"]
                 /\ selection' =
                      <<[x |-> clampNumber(ToRatio(pt[1], ContainerSize.width), 0, One),
                         y |-> clampNumber(ToRatio(pt[2], ContainerSize.height), 0, One),
                         width |-> 0, height |-> 0]>>
                 /\ capture' = id
  /\ UNCHANGED <<rectTool, notRectVars>>

\* AddWatermarkTool.handlePointerDown
WatermarkPointerDown ==
  /\ rectTool = "watermark"
  /\ \E id \in PointerIds, button \in {0, 2},
        hit \in WatermarkHandles \cup {"surface"},
        pt \in DownPoints :
       /\ lastEvent' = "down"
       /\ hit # "surface" => selection # <<>> /\ pt = <<0, 0>>
       /\ button # 0 => hit = "surface" /\ pt = <<0, 0>>
       /\ CASE selection = <<>> \/ button # 0 ->
                 UNCHANGED <<selection, interaction, capture>>
            [] selection # <<>> /\ button = 0 /\ hit \in WatermarkHandles ->
                 /\ interaction' = [kind |-> "resize", pointerId |-> id,
                                    origin |-> HandlePoint(selection[1], hit),
                                    initialRect |-> selection[1],
                                    handle |-> hit]
                 /\ capture' = id
                 /\ UNCHANGED selection
            [] selection # <<>> /\ button = 0 /\ hit = "surface" ->
                 /\ interaction' = [kind |-> "move", pointerId |-> id,
                                    origin |-> pt,
                                    initialRect |-> selection[1],
                                    handle |-> "none"]
                 /\ capture' = id
                 /\ UNCHANGED selection
  /\ UNCHANGED <<rectTool, notRectVars>>

\* handlePointerMove of both tools
PointerMove ==
  /\ \E id \in PointerIds, ex \in EventXs, ey \in EventYs :
       LET point == <<clampCoordinate(ex, 0, ContainerSize.width),
                      clampCoordinate(ey, 0, ContainerSize.height)>>
           deltaX == ToRatio(point[1] - interaction.origin[1], ContainerSize.width)
           deltaY == ToRatio(point[2] - interaction.origin[2], ContainerSize.height)
           moved == [x |-> interaction.initialRect.x + deltaX,
                     y |-> interaction.initialRect.y + deltaY,
                     width |-> interaction.initialRect.width,
                     height |-> interaction.initialRect.height]
       IN
       /\ lastEvent' = IF ex = NaN /\ ey = NaN THEN "moveNaN" ELSE "move"
       /\ CASE interaction.kind = "none" -> UNCHANGED selection
            [] interaction.kind = "create" ->
                 selection' = <<buildRectFromPoints(interaction.origin, point,
                                  ContainerSize, minWidth, minHeight)>>
            [] interaction.kind # "none" /\ interaction.kind # "create"
                 /\ rectTool = "crop" /\ selection = <<>> ->
                 UNCHANGED selection
            [] interaction.kind = "move"
                 /\ ~(rectTool = "crop" /\ selection = <<>>) ->
                 selection' =
                   <<IF rectTool = "crop"
                     THEN cropClampRect(moved, minWidth, minHeight)
                     ELSE watermarkClampRect(moved, minWidth, minHeight)>>
            [] interaction.kind = "resize"
                 /\ ~(rectTool = "crop" /\ selection = <<>>) ->
                 selection' =
                   <<IF rectTool = "crop"
                     THEN cropApplyResize(interaction.initialRect,
                            interaction.handle, deltaX, deltaY, minWidth, minHeight)
                     ELSE watermarkApplyResize(interaction.initialRect,
                            interaction.handle, deltaX, deltaY, minWidth, minHeight)>>
  /\ UNCHANGED <<rectTool, interaction, capture, notRectVars>>

\* handlePointerUp, bound to onPointerUp and onPointerCancel; the browser
\* drops the capture of a pointer that went up or was cancelled
PointerUp ==
  /\ \E id \in PointerIds, kind \in {"up", "cancel"} :
       /\ lastEvent' = kind
       /\ interaction' = EndInteraction(interaction, id, capture)
       /\ capture' = IF capture = id THEN 0 ELSE capture
  /\ UNCHANGED <<rectTool, selection, notRectVars>>

\* CropVideoTool: the "Clear selection" button, setSelection(null)
ClearSelection ==
  /\ rectTool = "crop"
  /\ selection # <<>>
  /\ selection' = <<>>
  /\ lastEvent' = "clear"
  /\ UNCHANGED <<rectTool, interaction, capture, notRectVars>>

\* AddWatermarkTool: a watermark image was loaded while no rect is stored
\* (first image, or after resetWatermark / removing the image)
WatermarkPlaced ==
  /\ rectTool = "watermark"
  /\ selection = <<>>
  /\ \E aspect \in WatermarkAspects :
       selection' = <<InitialWatermarkRect(aspect)>>
  /\ lastEvent' = "place"
  /\ UNCHANGED <<rectTool, interaction, capture, notRectVars>>

\* AddWatermarkTool: handleWatermarkSelected(null), setWatermarkRect(null)
WatermarkRemoved ==
  /\ rectTool = "watermark"
  /\ selection # <<>>
  /\ selection' = <<>>
  /\ lastEvent' = "clear"
  /\ UNCHANGED <<rectTool, interaction, capture, notRectVars>>

NextRect ==
  \/ CropPointerDown
  \/ WatermarkPointerDown
  \/ PointerMove
  \/ PointerUp
  \/ ClearSelection
  \/ WatermarkPlaced
  \/ WatermarkRemoved

SpecRect == InitRect /\ [][NextRect]_vars

\* C14: after any sequence of pointer events the stored rect is absent or
\* lies inside the unit square and is at least minWidth x minHeight
C14_RectValid ==
  \/ selection = <<>>
  \/ LET r == selection[1] IN
     /\ r.x >= 0
     /\ r.y >= 0
     /\ r.x + r.width <= One
     /\ r.y + r.height <= One
     /\ r.width >= minWidth
     /\ r.height >= minHeight

\* what C15 says of the states after a pointer-up or pointer-cancel
C15_NoneAfterUp == lastEvent \in {"up", "cancel"} => interaction = NoInteraction

\* what C15 says of a pointer-move that arrives while no interaction runs
C15_IdleMoveStep ==
  interaction = NoInteraction /\ lastEvent' \in MoveEvents => selection' = selection

\* C15: from any interaction state a pointer-up or pointer-cancel sets the
\* interaction to none, whatever the event's pointer id and whoever holds
\* the pointer capture; until the next pointer-down, pointer-moves leave the
\* rect unchanged
C15_UpEndsInteraction == []C15_NoneAfterUp /\ [][C15_IdleMoveStep]_vars

\* a pointer went up while another pointer holds the capture of a gesture
\* on an existing rect
C15_Witness ==
  /\ lastEvent = "up"
  /\ capture # 0
  /\ interaction = NoInteraction
  /\ selection # <<>>

\* the rect invariant of C14 for one rect
RectValid(r) ==
  /\ r.x >= 0
  /\ r.y >= 0
  /\ r.x + r.width <= One
  /\ r.y + r.height <= One
  /\ r.width >= minWidth
  /\ r.height >= minHeight

\* the edges opposite to a handle are where they were
OppositeEdgesFixed(initial, next, handle) ==
  /\ handle \in {"left", "top-left", "bottom-left"} =>
       next.x + next.width = initial.x + initial.width
  /\ handle \in {"right", "top-right", "bottom-right"} => next.x = initial.x
  /\ handle \in {"top", "top-left", "top-right"} =>
       next.y + next.height = initial.y + initial.height
  /\ handle \in {"bottom", "bottom-left", "bottom-right"} => next.y = initial.y

\* what C23 says of a pointer-move that stores a rect during a move or resize
C23_MoveStep ==
  /\ lastEvent' \in MoveEvents
  /\ selection' # <<>>
  /\ interaction.kind \in {"move", "resize"}
  /\ RectValid(interaction.initialRect)
  => /\ interaction.kind = "resize" =>
          OppositeEdgesFixed(interaction.initialRect, selection'[1], interaction.handle)
     /\ interaction.kind = "move" =>
          /\ selection'[1].width = interaction.initialRect.width
          /\ selection'[1].height = interaction.initialRect.height

\* C23: for every rect that satisfies the rect invariant and every drag
\* delta, resizing with a handle leaves the opposite edges fixed, and a move
\* keeps the width and height of the initial rect
C23_OppositeEdgeFixed == [][C23_MoveStep]_vars

\* a resize with a left-side handle has moved the left edge of a valid rect
C23_Witness ==
  /\ lastEvent = "move"
  /\ interaction.kind = "resize"
  /\ interaction.handle \in {"left", "top-left", "bottom-left"}
  /\ RectValid(interaction.initialRect)
  /\ selection # <<>>
  /\ selection[1].x # interaction.initialRect.x
  /\ selection[1].x + selection[1].width
       = interaction.initialRect.x + interaction.initialRect.width

\* C24: a pointer-move whose coordinates are NaN during a move or resize is
\* treated as a zero delta: the rect stored equals the interaction's initial
\* rect (stated for the interactions that began on a rect satisfying the rect
\* invariant)
C24_NaNIsZeroDelta ==
  /\ lastEvent = "moveNaN"
  /\ interaction.kind \in {"move", "resize"}
  /\ RectValid(interaction.initialRect)
  /\ selection # <<>>
  => selection[1] = interaction.initialRect

\* ====================================================================
\* Part 4: matchAudioDuration (replace-audio-tool.tsx and the
\* image-to-video tool).  Durations are multiples of 1/DurationDen s and
\* the product sampleRate * targetDuration is exact.
\* ====================================================================
\* durations are counted in 1/DurationDen seconds
DurationDen == 2
\* the longest target duration, in 1/DurationDen seconds
MaxDuration == 4
\* the most frames of a decoded buffer
MaxFrames == 3
\* calls of the function made in a row, each on the result of the last
MaxCalls == 2

SampleRates == {1, 2, 3}
ChannelCounts == {1, 2}
Samples == {0, 1}
AudioBuffers ==
  {[sampleRate |-> r, channels |-> ch] :
     r \in SampleRates,
     ch \in UNION {[1..c -> [1..n -> Samples]] :
                     c \in ChannelCounts, n \in 1..MaxFrames}}

\* buffer.length, buffer.numberOfChannels
FrameCount(buffer) == Len(buffer.channels[1])
ChannelCount(buffer) == Len(buffer.channels)

\* a slip: the pad repeats the last source frame
MatchedFrameHeld(sourceData, n) ==
  IF n <= Len(sourceData) THEN sourceData[n] ELSE sourceData[Len(sourceData)]

\* targetData[i] = i < sourceFrames ? sourceData[i] : 0 (n is i + 1)
MatchedFrame(sourceData, n) ==
  IF n <= Len(sourceData) THEN sourceData[n] ELSE 0

\* Math.max(1, Math.round(sampleRate * targetDuration))
TargetLength(sampleRate, duration) ==
  Max(1, Round(sampleRate * duration, DurationDen))

\* the loop over the channels filling a new AudioBuffer
MatchedBuffer(buffer, targetLength) ==
  [sampleRate |-> buffer.sampleRate,
   channels |-> [channel \in 1..ChannelCount(buffer) |->
                   [n \in 1..targetLength |->
                      MatchedFrame(buffer.channels[channel], n)]]]

\* a slip: the silence is appended to the source instead of filling up to
\* the target length
matchAudioDurationAppend(buffer, duration) ==
  MatchedBuffer(buffer, FrameCount(buffer)
                        + TargetLength(buffer.sampleRate, duration))

\* replace-audio-tool.tsx matchAudioDuration
matchAudioDuration(buffer, duration) ==
  LET targetLength == TargetLength(buffer.sampleRate, duration) IN
  IF targetLength = FrameCount(buffer) THEN buffer
  ELSE MatchedBuffer(buffer, targetLength)

\* the image-to-video tool's matchAudioDuration: always a new buffer
imageMatchAudioDuration(buffer, duration) ==
  MatchedBuffer(buffer, TargetLength(buffer.sampleRate, duration))

MatchOf(buffer) ==
  IF matchTool = "replaceAudio"
  THEN matchAudioDuration(buffer, targetDuration)
  ELSE imageMatchAudioDuration(buffer, targetDuration)

InitMatch ==
  /\ MergeInit
  /\ LateIdle
  /\ JobsIdle
  /\ RectIdle
  /\ BlendIdle
  /\ ResizeIdle
  /\ matchTool \in {"replaceAudio", "imageToVideo"}
  /\ audioBuffer \in AudioBuffers
  /\ targetDuration \in 0..MaxDuration
  /\ matched = <<>>

\* the tool's call: matchAudioDuration(audioBuffer, duration)
MatchAudio ==
  /\ matched = <<>>
  /\ matched' = <<MatchOf(audioBuffer)>>
  /\ UNCHANGED <<matchTool, audioBuffer, targetDuration, notMatchVars>>

\* the function applied to its own result, same duration
MatchAgain ==
  /\ matched # <<>>
  /\ Len(matched) < MaxCalls
  /\ matched' = Append(matched, MatchOf(matched[Len(matched)]))
  /\ UNCHANGED <<matchTool, audioBuffer, targetDuration, notMatchVars>>

NextMatch ==
  \/ MatchAudio
  \/ MatchAgain

SpecMatch == InitMatch /\ [][NextMatch]_vars

\* result has the source's rate and channels, length frames, the source's
\* leading frames and silence after them
IsMatchOf(result, source, length) ==
  /\ result.sampleRate = source.sampleRate
  /\ ChannelCount(result) = ChannelCount(source)
  /\ \A c \in 1..ChannelCount(result) :
       /\ Len(result.channels[c]) = length
       /\ \A n \in 1..length :
            result.channels[c][n] =
              IF n <= FrameCount(source) THEN source.channels[c][n] ELSE 0

\* C16 as stated: for every buffer and d >= 0 the result has the source's
\* sample rate and channel count, length round(sampleRate * d), the
\* source's first min(source, result) frames and zeros after them
C16_MatchedAsStated ==
  matched # <<>> =>
    IsMatchOf(matched[1], audioBuffer,
              Round(audioBuffer.sampleRate * targetDuration, DurationDen))

\* C16, amended: the same with length max(1, round(sampleRate * d))
C16_Matched ==
  matched # <<>> =>
    IsMatchOf(matched[1], audioBuffer,
              Max(1, Round(audioBuffer.sampleRate * targetDuration, DurationDen)))

\* one second of sound matched to 2.0 s: twice the frames, the second half
\* silence
C16_Witness ==
  /\ matched # <<>>
  /\ FrameCount(audioBuffer) = audioBuffer.sampleRate
  /\ targetDuration = 2 * DurationDen
  /\ FrameCount(matched[1]) = 2 * FrameCount(audioBuffer)
  /\ \A n \in 1..FrameCount(audioBuffer) : audioBuffer.channels[1][n] = 1
  /\ \A n \in (FrameCount(audioBuffer) + 1)..FrameCount(matched[1]) :
       matched[1].channels[1][n] = 0

\* C17: matchAudioDuration(matchAudioDuration(b, d), d) has the length,
\* channel count and sample values of matchAudioDuration(b, d)
C17_Idempotent ==
  Len(matched) >= 2 =>
    /\ FrameCount(matched[2]) = FrameCount(matched[1])
    /\ ChannelCount(matched[2]) = ChannelCount(matched[1])
    /\ matched[2].channels = matched[1].channels

\* the function was applied twice and the first call had changed the buffer
C17_Witness ==
  /\ Len(matched) >= 2
  /\ matched[1] # audioBuffer
  /\ FrameCount(matched[1]) > FrameCount(audioBuffer)

\* ====================================================================
\* Part 5: BlendTracksTool (blend-tracks-tool.tsx): mixAudioBuffers and
\* the blendTracks job.  A decoded sample is a multiple of 1/SampleDen, a
\* gain a multiple of 1/GainDen; a mixed sample is the exact ratio
\* num / den (floating-point rounding is not modelled).  The runtime is
\* loaded, so blendTracks runs from the click to its first await in one
\* step.
\* ====================================================================
\* a decoded sample is counted in 1/SampleDen
SampleDen == 2
\* blendRatio and the gains are counted in 1/GainDen
GainDen == 2
\* the most samples (channels x frames) of a decoded track
MaxBlendSamples == 2

\* 1.0 in the unit of a raw mixed sample, sample * gain
MixOne == SampleDen * GainDen

\* decoded sample values: -1.5, 0 and 1 when SampleDen is 2
BlendSamples == {-(SampleDen + 1), 0, SampleDen}
BlendRates == {1, 2}
BlendBuffers ==
  {[sampleRate |-> r, channels |-> ch] :
     r \in BlendRates,
     ch \in UNION {UNION {[1..c -> [1..n -> BlendSamples]] :
                            n \in 1..(MaxBlendSamples \div c)} :
                     c \in 1..MaxBlendSamples}}

Abs(v) == IF v < 0 THEN -v ELSE v

\* const primaryGain = 1 - blendRatio; const secondaryGain = blendRatio
primaryGain == GainDen - blendRatio
secondaryGain == blendRatio

\* a slip: the rates are never compared
SampleRatesAccepted(a, b) == FALSE

\* secondary.sampleRate !== sampleRate
SampleRatesDiffer(a, b) == b.sampleRate # a.sampleRate

\* sampleA * primaryGain + sampleB * secondaryGain, a missing channel or
\* frame counting as 0
MixedSample(a, b, gainA, gainB, channel, index) ==
  LET sampleA == IF channel <= ChannelCount(a) /\ index <= FrameCount(a)
                 THEN a.channels[channel][index] ELSE 0
      sampleB == IF channel <= ChannelCount(b) /\ index <= FrameCount(b)
                 THEN b.channels[channel][index] ELSE 0
  IN sampleA * gainA + sampleB * gainB

\* a slip: the mix is as long as the longer track
RawMixPadded(a, b, gainA, gainB) ==
  [channel \in 1..Max(ChannelCount(a), ChannelCount(b)) |->
     [index \in 1..Max(FrameCount(a), FrameCount(b)) |->
        MixedSample(a, b, gainA, gainB, channel, index)]]

\* the raw mix: channelCount channels of frameCount frames
RawMix(a, b, gainA, gainB) ==
  [channel \in 1..Max(ChannelCount(a), ChannelCount(b)) |->
     [index \in 1..Min(FrameCount(a), FrameCount(b)) |->
        MixedSample(a, b, gainA, gainB, channel, index)]]

\* a slip: only the first channel is scanned for the peak
PeakOfFirstChannel(raw) ==
  LET all == {Abs(raw[1][n]) : n \in 1..Len(raw[1])}
  IN IF all = {} THEN 0 ELSE CHOOSE m \in all : \A v \in all : v <= m

\* let peak: the largest Math.abs(mixedSample) over all channels
Peak(raw) ==
  LET all == {Abs(raw[c][n]) : c \in 1..Len(raw), n \in 1..Len(raw[1])}
  IN IF all = {} THEN 0 ELSE CHOOSE m \in all : \A v \in all : v <= m

\* mixAudioBuffers past its sample-rate check: the mix, multiplied by
\* 1 / peak when the peak exceeds 1
mixAudioBuffers(a, b, gainA, gainB) ==
  LET raw == RawMix(a, b, gainA, gainB)
      peak == Peak(raw)
      den == IF peak > MixOne THEN peak ELSE MixOne
  IN [sampleRate |-> a.sampleRate,
      channels |-> [c \in 1..Len(raw) |->
                      [n \in 1..Len(raw[c]) |-> [num |-> raw[c][n], den |-> den]]]]

InitBlend ==
  /\ MergeInit
  /\ LateIdle
  /\ JobsIdle
  /\ RectIdle
  /\ MatchIdle
  /\ ResizeIdle
  /\ primary \in BlendBuffers
  /\ secondary \in BlendBuffers
  /\ blendRatio \in 0..GainDen
  /\ blendStatus = "ready"
  /\ blendProgress = 0
  /\ blendError = ""
  /\ blendPc = "idle"
  /\ mixedBuffer = <<>>
  /\ blendSource = "none"
  /\ blendOutput = "none"

\* catch (err): close the source, cancel an output that is not finalized,
\* setErrorMessage, setStatus('error'), setProgress(0)
BlendCatch(message, output) ==
  /\ blendSource' = IF blendSource = "open" THEN "closed" ELSE blendSource
  /\ blendOutput' = IF output \in {"created", "started"} THEN "cancelled" ELSE output
  /\ blendError' = message
  /\ blendStatus' = "error"
  /\ blendProgress' = 0
  /\ blendPc' = "done"

\* the button: blendTracks up to await selectEncodingConfig(...)
BlendTracks ==
  /\ blendPc = "idle"
  /\ blendStatus # "converting"
  /\ IF SampleRatesDiffer(primary, secondary)
     THEN /\ BlendCatch("Both tracks must share the same sample rate.", blendOutput)
          /\ UNCHANGED mixedBuffer
     ELSE /\ mixedBuffer' = <<mixAudioBuffers(primary, secondary,
                                             primaryGain, secondaryGain)>>
          /\ blendStatus' = "converting"
          /\ blendProgress' = 30
          /\ blendError' = ""
          /\ blendPc' = "encoding"
          /\ UNCHANGED <<blendSource, blendOutput>>
  /\ UNCHANGED <<primary, secondary, blendRatio, notBlendVars>>

\* selectEncodingConfig resolved: the output and its source are created and
\* output.start() is awaited
BlendCreateOutput ==
  /\ blendPc = "encoding"
  /\ \E r \in {"ok", "throws"} :
       CASE r = "ok" ->
              /\ blendProgress' = 45
              /\ blendOutput' = "created"
              /\ blendSource' = "open"
              /\ blendPc' = "start"
              /\ UNCHANGED <<blendStatus, blendError>>
         [] r = "throws" -> BlendCatch("engine error", blendOutput)
  /\ UNCHANGED <<primary, secondary, blendRatio, mixedBuffer, notBlendVars>>

\* await output.start() settles
BlendStart ==
  /\ blendPc = "start"
  /\ \E r \in {"ok", "throws"} :
       CASE r = "ok" ->
              /\ blendOutput' = "started"
              /\ blendProgress' = 60
              /\ blendPc' = "add"
              /\ UNCHANGED <<blendStatus, blendError, blendSource>>
         [] r = "throws" -> BlendCatch("engine error", blendOutput)
  /\ UNCHANGED <<primary, secondary, blendRatio, mixedBuffer, notBlendVars>>

\* await audioSource.add(mixedBuffer) settles
BlendAdd ==
  /\ blendPc = "add"
  /\ \E r \in {"ok", "throws"} :
       CASE r = "ok" ->
              /\ blendSource' = "closed"
              /\ blendProgress' = 80
              /\ blendPc' = "finalize"
              /\ UNCHANGED <<blendStatus, blendError, blendOutput>>
         [] r = "throws" -> BlendCatch("engine error", blendOutput)
  /\ UNCHANGED <<primary, secondary, blendRatio, mixedBuffer, notBlendVars>>

\* await output.finalize() settles
BlendFinalize ==
  /\ blendPc = "finalize"
  /\ \E r \in {"ok", "noBuffer", "throws"} :
       CASE r = "ok" ->
              /\ blendOutput' = "finalized"
              /\ blendStatus' = "success"
              /\ blendProgress' = 100
              /\ blendPc' = "done"
              /\ UNCHANGED <<blendError, blendSource>>
         [] r = "noBuffer" -> BlendCatch("No audio data produced.", "finalized")
         [] r = "throws" -> BlendCatch("engine error", blendOutput)
  /\ UNCHANGED <<primary, secondary, blendRatio, mixedBuffer, notBlendVars>>

NextBlend ==
  \/ BlendTracks
  \/ BlendCreateOutput
  \/ BlendStart
  \/ BlendAdd
  \/ BlendFinalize

SpecBlend == InitBlend /\ [][NextBlend]_vars

\* C18: when the two sample rates differ mixAudioBuffers fails before a
\* mixed buffer, an encoder source or an output is created, and blendTracks
\* ends with status 'error', progress 0 and no output left started
C18_RateMismatchFails ==
  primary.sampleRate # secondary.sampleRate /\ blendPc # "idle" =>
    /\ mixedBuffer = <<>>
    /\ blendSource = "none"
    /\ blendOutput = "none"
    /\ blendStatus = "error"
    /\ blendProgress = 0
    /\ blendError = "Both tracks must share the same sample rate."
    /\ blendPc = "done"

\* the button was clicked on two tracks of different sample rates
C18_Witness ==
  /\ primary.sampleRate # secondary.sampleRate
  /\ blendPc = "done"
  /\ blendStatus = "error"

\* C19: every sample of the mix has absolute value <= 1; when the raw peak
\* over all channels exceeds 1 every sample is the raw sample times 1/peak,
\* otherwise it is the raw sample
C19_MixNormalized ==
  mixedBuffer # <<>> =>
    LET raw == RawMix(primary, secondary, primaryGain, secondaryGain)
        peak == CHOOSE m \in {Abs(raw[c][n]) : c \in 1..Len(raw),
                                                n \in 1..Len(raw[1])} :
                  \A c \in 1..Len(raw), n \in 1..Len(raw[1]) : Abs(raw[c][n]) <= m
        mix == mixedBuffer[1].channels
    IN /\ Len(mix) = Len(raw)
       /\ \A c \in 1..Len(raw) :
            /\ Len(mix[c]) = Len(raw[c])
            /\ \A n \in 1..Len(raw[c]) :
                 /\ mix[c][n].den > 0
                 /\ Abs(mix[c][n].num) <= mix[c][n].den
                 /\ IF peak > MixOne
                    THEN mix[c][n].num * peak = raw[c][n] * mix[c][n].den
                    ELSE mix[c][n].num * MixOne = raw[c][n] * mix[c][n].den

\* a stereo mix whose second channel carries the peak, above 1: the first
\* channel's sample was scaled down with it
C19_Witness ==
  /\ mixedBuffer # <<>>
  /\ Len(mixedBuffer[1].channels) = 2
  /\ mixedBuffer[1].channels[2][1].den > MixOne
  /\ Abs(mixedBuffer[1].channels[2][1].num) = mixedBuffer[1].channels[2][1].den
  /\ mixedBuffer[1].channels[1][1].num # 0
  /\ Abs(mixedBuffer[1].channels[1][1].num) < mixedBuffer[1].channels[1][1].den


\* sample index of a channel of a track, 0 where the track has no such channel
ChannelSample(buffer, channel, index) ==
  IF channel <= ChannelCount(buffer) THEN buffer.channels[channel][index] ELSE 0

\* C25: for two buffers of equal sample rate the mix has max(a.channels,
\* b.channels) channels of min(a.length, b.length) frames, and before peak
\* normalization sample i of channel c is a[c][i] * gainA + b[c][i] * gainB,
\* a channel missing from one input contributing 0; it is never padded to the
\* longer input
C25_MixShape ==
  mixedBuffer # <<>> =>
    LET mix == mixedBuffer[1].channels
        frames == Min(FrameCount(primary), FrameCount(secondary))
    IN /\ Len(mix) = Max(ChannelCount(primary), ChannelCount(secondary))
       /\ \A c \in 1..Len(mix) :
            /\ Len(mix[c]) = frames
            /\ Len(mix[c]) <= FrameCount(primary)
            /\ Len(mix[c]) <= FrameCount(secondary)
            /\ \A n \in 1..frames :
                 mix[c][n].num =
                   ChannelSample(primary, c, n) * primaryGain
                     + ChannelSample(secondary, c, n) * secondaryGain

\* a two-channel track of one frame mixed with a one-channel track of two
\* frames: two channels of one frame, the second channel from the first track
\* alone
C25_Witness ==
  /\ mixedBuffer # <<>>
  /\ ChannelCount(primary) = 2
  /\ ChannelCount(secondary) = 1
  /\ FrameCount(primary) = 1
  /\ FrameCount(secondary) = 2
  /\ Len(mixedBuffer[1].channels) = 2
  /\ Len(mixedBuffer[1].channels[2]) = 1
  /\ mixedBuffer[1].channels[2][1].num = primary.channels[2][1] * primaryGain
  /\ mixedBuffer[1].channels[2][1].num # 0
  /\ secondary.channels[1][1] # 0

----------------------------------------------------------------------------
\* Part 6: ResizeVideoTool, the size handed to the encoder

\* typed sizes are held in units of 1/RequestDen px
RequestDen == 10

\* <Input type="number" max={8192}>
MAX_DIMENSION == 8192

\* what the user types into a size field: '', 1.4, 2, 3.4, 3.5, 721, 1281
Requests == {0, 14, 20, 34, 35, 7210, 12810}

\* videoWidth x videoHeight of the loaded file
OriginalSizes == {<<1281, 721>>, <<3, 2>>}

\* String(n) read back by Number(): a whole number of px
Px(n) == n * RequestDen

\* the values the size fields are followed over: what is typed, the sizes
\* of the file and the presets, and the smallest whole sizes
FieldValues == Requests \cup {Px(n) : n \in {2, 3, 4, 720, 721, 1280, 1281}}

\* the presets offered besides 'original'
PRESETS == {<<1280, 720>>}

\* a slip: rounds and floors at 2, the odd results are kept
ensureEvenRoundOnly(value) == Max(2, Round(value, RequestDen))

\* function ensureEven(value: number)
ensureEven(value) ==
  LET next == Max(2, Round(value, RequestDen))
  IN  IF next % 2 # 0
        THEN IF next > 2 THEN next - 1 ELSE 2
        ELSE next

\* const aspectRatio = React.useMemo(...): <<numerator, denominator>>, <<>> for null
aspectRatio ==
  IF targetWidth > 0 /\ targetHeight > 0
    THEN <<targetWidth, targetHeight>>
    ELSE IF originalSize # <<>> /\ originalSize[2] > 0
           THEN originalSize
           ELSE <<>>

\* Math.max(2, Math.round(numeric / aspectRatio))
derivedHeight(numeric) ==
  Max(2, Round(numeric * aspectRatio[2], aspectRatio[1] * RequestDen))

\* Math.max(2, Math.round(numeric * aspectRatio))
derivedWidth(numeric) ==
  Max(2, Round(numeric * aspectRatio[1], aspectRatio[2] * RequestDen))

\* lockAspect && aspectRatio && Number.isFinite(numeric) && numeric > 0
Derives(lock, numeric) == lock /\ aspectRatio # <<>> /\ numeric > 0

converting == resizeStatus = "converting"

selectionValid ==
  /\ targetWidth >= Px(2)
  /\ targetHeight >= Px(2)
  /\ targetWidth <= Px(MAX_DIMENSION)
  /\ targetHeight <= Px(MAX_DIMENSION)

\* a file is selected and its metadata has loaded
InitResize ==
  /\ MergeInit
  /\ LateIdle
  /\ JobsIdle
  /\ RectIdle
  /\ MatchIdle
  /\ BlendIdle
  /\ originalSize \in OriginalSizes
  /\ targetWidth = Px(ensureEven(Px(originalSize[1])))
  /\ targetHeight = Px(ensureEven(Px(originalSize[2])))
  /\ lockAspect = TRUE
  /\ resizeStatus = "ready"
  /\ encoderSize = <<>>

handlePresetChange ==
  /\ ~converting
  /\ originalSize # <<>>
  /\ \E preset \in PRESETS \cup {originalSize} :
       /\ targetWidth' = Px(preset[1])
       /\ targetHeight' = Px(preset[2])
  /\ UNCHANGED <<resizeStatus, lockAspect, originalSize, encoderSize, notResizeVars>>

handleWidthChange ==
  /\ ~converting
  /\ \E value \in Requests :
       /\ targetWidth' = value
       /\ IF Derives(lockAspect, value)
            THEN /\ Px(derivedHeight(value)) \in FieldValues
                 /\ targetHeight' = Px(derivedHeight(value))
            ELSE UNCHANGED targetHeight
  /\ UNCHANGED <<resizeStatus, lockAspect, originalSize, encoderSize, notResizeVars>>

handleHeightChange ==
  /\ ~converting
  /\ \E value \in Requests :
       /\ targetHeight' = value
       /\ IF Derives(lockAspect, value)
            THEN /\ Px(derivedWidth(value)) \in FieldValues
                 /\ targetWidth' = Px(derivedWidth(value))
            ELSE UNCHANGED targetWidth
  /\ UNCHANGED <<resizeStatus, lockAspect, originalSize, encoderSize, notResizeVars>>

handleLockAspectToggle ==
  /\ ~converting
  /\ \E checked \in BOOLEAN :
       /\ lockAspect' = checked
       /\ IF Derives(checked, targetWidth)
            THEN /\ Px(derivedHeight(targetWidth)) \in FieldValues
                 /\ targetHeight' = Px(derivedHeight(targetWidth))
            ELSE UNCHANGED targetHeight
  /\ UNCHANGED <<targetWidth, resizeStatus, originalSize, encoderSize, notResizeVars>>

\* the Resize button: convert up to the hand-over of evenWidth x evenHeight
convert ==
  /\ ~converting
  /\ selectionValid
  /\ IF targetWidth < Px(2) \/ targetHeight < Px(2)
       THEN /\ resizeStatus' = "error"
            /\ UNCHANGED encoderSize
       ELSE LET evenWidth == ensureEven(targetWidth)
                evenHeight == ensureEven(targetHeight)
            IN  IF evenWidth < 2 \/ evenHeight < 2
                  THEN /\ resizeStatus' = "error"
                       /\ UNCHANGED encoderSize
                  ELSE /\ resizeStatus' = "converting"
                       /\ encoderSize' = <<evenWidth, evenHeight>>
  /\ UNCHANGED <<targetWidth, targetHeight, lockAspect, originalSize, notResizeVars>>

\* conversion.execute() resolved and the download started
ConvertSucceed ==
  /\ converting
  /\ resizeStatus' = "success"
  /\ UNCHANGED <<targetWidth, targetHeight, lockAspect, originalSize, encoderSize, notResizeVars>>

\* convert: catch (err)
ConvertFail ==
  /\ converting
  /\ resizeStatus' = "error"
  /\ UNCHANGED <<targetWidth, targetHeight, lockAspect, originalSize, encoderSize, notResizeVars>>

NextResize ==
  \/ handlePresetChange
  \/ handleWidthChange
  \/ handleHeightChange
  \/ handleLockAspectToggle
  \/ convert
  \/ ConvertSucceed
  \/ ConvertFail

SpecResize == InitResize /\ [][NextResize]_vars

\* the distance between an encoder dimension and the typed value, in 1/RequestDen px
Distance(even, value) == Abs(Px(even) - value)

\* even is an even integer >= 2 no further from value than its even neighbours
NearestEven(even, value) ==
  /\ even % 2 = 0
  /\ even >= 2
  /\ Distance(even, value) <= Distance(even + 2, value)
  /\ even > 2 => Distance(even, value) <= Distance(even - 2, value)

\* even is even, >= 2, within 1 of Math.round(value), and a fixed point of ensureEven
EvenNearRound(even, value) ==
  /\ even % 2 = 0
  /\ even >= 2
  /\ Abs(even - Round(value, RequestDen)) <= 1
  /\ ensureEven(Px(even)) = even

----------------------------------------------------------------------------
\* Part 7: CropVideoTool, the source rectangle read from each frame

\* selectionPixels are held in units of 1/PixelDen px
PixelDen == 2

\* largest width and height of a video and of a decoded frame
MaxVideoDim == 4

VideoDims == 1..MaxVideoDim
FrameSizes == VideoDims \X VideoDims

\* selection.x * videoDimensions.width and selection.width * videoDimensions.width
\* for a selection lying inside a video of the given width
SelectionSpans(videoWidth) ==
  UNION {{<<x, w>> : w \in 1..(videoWidth * PixelDen - x)} :
           x \in 0..(videoWidth * PixelDen - 1)}

\* the same for a selection that falls on whole rows
SelectionRows(videoHeight) ==
  UNION {{<<y * PixelDen, h * PixelDen>> : h \in 1..(videoHeight - y)} :
           y \in 0..(videoHeight - 1)}

\* const selectionPixels = React.useMemo(...)
SelectionPixels(video) ==
  {[x |-> xs[1], y |-> ys[1], width |-> xs[2], height |-> ys[2]] :
     xs \in SelectionSpans(video[1]), ys \in SelectionRows(video[2])}

\* ensureEven of crop-video-tool.tsx, on a value Math.round has made whole
cropEnsureEven(value) ==
  LET next == Max(2, value)
  IN  IF next % 2 # 0
        THEN IF next > 2 THEN next - 1 ELSE 2
        ELSE next

Thrown == [ok |-> FALSE, value |-> 0]
Returned(n) == [ok |-> TRUE, value |-> n]

\* function ensureEvenWithinBounds(value: number, max: number)
ensureEvenWithinBounds(value, max) ==
  LET maxInt == max
      n1 == Max(2, value)
      n2 == IF n1 > maxInt THEN maxInt ELSE n1
      n3 == IF n2 % 2 # 0
              THEN IF n2 < maxInt THEN n2 + 1 ELSE n2 - 1
              ELSE n2
      evenMax == maxInt - (maxInt % 2)
      n4 == IF n3 > maxInt
              THEN IF evenMax >= 2 THEN evenMax ELSE 2
              ELSE n3
      n5 == IF n4 % 2 # 0 THEN Max(2, n4 - 1) ELSE n4
      n6 == IF n5 > maxInt THEN Max(2, maxInt - (maxInt % 2)) ELSE n5
  IN  IF maxInt < 2 THEN Thrown
      ELSE IF n4 < 2 THEN Thrown
      ELSE IF n6 < 2 THEN Thrown
      ELSE Returned(n6)

\* evenSelectionWidth ?? ensureEven(Math.round(selectionPixels.width))
desiredWidth(pixels) == cropEnsureEven(Round(pixels.width, PixelDen))
desiredHeight(pixels) == cropEnsureEven(Round(pixels.height, PixelDen))

\* const sx = clampNumber(Math.round(selectionPixels.x), 0, Math.max(0, sampleWidth - 1))
SourceX(pixels, sampleWidth) ==
  clampNumber(Round(pixels.x, PixelDen), 0, Max(0, sampleWidth - 1))
SourceY(pixels, sampleHeight) ==
  clampNumber(Round(pixels.y, PixelDen), 0, Max(0, sampleHeight - 1))

\* the process callback up to sample.draw: the rectangle, or <<>> when
\* ensureEvenWithinBounds throws
process(pixels, sample) ==
  LET sx == SourceX(pixels, sample[1])
      sy == SourceY(pixels, sample[2])
      maxWidth == Max(2, sample[1] - sx)
      maxHeight == Max(2, sample[2] - sy)
      sWidth == ensureEvenWithinBounds(desiredWidth(pixels), maxWidth)
      sHeight == ensureEvenWithinBounds(desiredHeight(pixels), maxHeight)
  IN  IF sWidth.ok /\ sHeight.ok
        THEN [sx |-> sx, sy |-> sy, sWidth |-> sWidth.value, sHeight |-> sHeight.value]
        ELSE <<>>

TooSmall == "Selected crop is too small for AVC encoding."

\* a video is loaded and a selection drawn on it
InitCrop ==
  /\ MergeInit
  /\ CropOthersIdle
  /\ \E video \in FrameSizes : \E pixels \in SelectionPixels(video) :
       cropJob = [videoDimensions |-> video, selectionPixels |-> pixels,
                  status |-> "ready", errorMessage |-> "",
                  frame |-> <<>>, source |-> <<>>]

\* const cropValid
cropValid ==
  /\ cropJob.selectionPixels # <<>>
  /\ cropJob.selectionPixels.width > 0
  /\ cropJob.selectionPixels.height > 0

\* the Crop button: convert up to await conversion.execute()
CropConvert ==
  /\ cropJob.status # "converting"
  /\ cropValid
  /\ cropJob' = [cropJob EXCEPT !.status = "converting", !.errorMessage = "",
                                !.frame = <<>>, !.source = <<>>]
  /\ UNCHANGED notCropVars

\* the engine hands a decoded frame to the process callback; a throw of the
\* callback rejects conversion.execute() and lands in convert's catch block
CropProcess ==
  /\ cropJob.status = "converting"
  /\ \E sample \in FrameSizes :
       LET rect == process(cropJob.selectionPixels, sample)
       IN  IF rect = <<>>
             THEN cropJob' = [cropJob EXCEPT !.frame = sample, !.source = <<>>,
                                !.status = "error", !.errorMessage = TooSmall]
             ELSE cropJob' = [cropJob EXCEPT !.frame = sample, !.source = rect]
  /\ UNCHANGED notCropVars

\* conversion.execute() resolved and the download started
CropSucceed ==
  /\ cropJob.status = "converting"
  /\ cropJob' = [cropJob EXCEPT !.status = "success"]
  /\ UNCHANGED notCropVars

NextCrop ==
  \/ CropConvert
  \/ CropProcess
  \/ CropSucceed

SpecCrop == InitCrop /\ [][NextCrop]_vars

\* pixels of the last frame to the right of and below the selection's origin
AvailableWidth == cropJob.frame[1] - SourceX(cropJob.selectionPixels, cropJob.frame[1])
AvailableHeight == cropJob.frame[2] - SourceY(cropJob.selectionPixels, cropJob.frame[2])

\* C21: the source rectangle read from a frame has even width and height >= 2
\* and lies inside the frame; when fewer than 2 pixels are available in a
\* dimension from the selection's origin, the 'too small' failure is raised
\* and no rectangle is produced
C21_SourceInsideFrame ==
  cropJob.frame # <<>> =>
    /\ cropJob.source # <<>> =>
         /\ cropJob.source.sWidth % 2 = 0
         /\ cropJob.source.sHeight % 2 = 0
         /\ cropJob.source.sWidth >= 2
         /\ cropJob.source.sHeight >= 2
         /\ cropJob.source.sx + cropJob.source.sWidth <= cropJob.frame[1]
         /\ cropJob.source.sy + cropJob.source.sHeight <= cropJob.frame[2]
    /\ (AvailableWidth < 2 \/ AvailableHeight < 2) =>
         /\ cropJob.source = <<>>
         /\ cropJob.status = "error"
         /\ cropJob.errorMessage = TooSmall

----------------------------------------------------------------------------
\* Part 8: SpeedControlTool, the samples written by the speed change

\* speeds are held in units of 1/SPEED_DEN: the field's step is 0.05
SPEED_DEN == 20

\* most samples of a track
MaxSpeedSamples == 2

\* latest start of a source sample
MaxTime == 2

\* const PRESETS: 0.5, 0.75, 1.25, 1.5, 2
SPEED_PRESETS == {10, 15, 25, 30, 40}

\* what is typed into the custom speed field: 0.1, 0.25, 1, 2.05, 4, 5
TypedSpeeds == {2, 5, 20, 41, 80, 100}

\* Math.min(4, Math.max(0.25, value))
normalizeSpeed(value) == Min(4 * SPEED_DEN, Max(SPEED_DEN \div 4, value))

SourceSamples == [timestamp : 0..MaxTime, duration : 1..2]

\* source order, and no sample starting before the one before it has ended
Consecutive(a, b) == a.timestamp + a.duration <= b.timestamp

RECURSIVE TracksOf(_)
\* the tracks of n samples a sink can yield
TracksOf(n) ==
  IF n = 0 THEN {<<>>}
  ELSE LET shorter == TracksOf(n - 1)
       IN  {Append(t, x) : t \in {u \in shorter : Len(u) = n - 1},
                           x \in SourceSamples} \cup shorter

SourceTracks ==
  {t \in TracksOf(MaxSpeedSamples) :
     \A k \in 1..(Len(t) - 1) : Consecutive(t[k], t[k + 1])}

\* a quotient n / d
Ratio(n, d) == <<n, d>>
RatioLeq(a, b) == a[1] * b[2] <= b[1] * a[2]
RatioSum(a, b) == <<a[1] * b[2] + b[1] * a[2], a[2] * b[2]>>
RatioEq(a, b) == a[1] * b[2] = b[1] * a[2]

\* value / effectiveSpeed
DividedBySpeed(value, effectiveSpeed) == Ratio(value * SPEED_DEN, effectiveSpeed)

\* adjusted = sample.clone(); setTimestamp(sample.timestamp / effectiveSpeed);
\* setDuration(sample.duration / effectiveSpeed)
AdjustedVideo(sample, effectiveSpeed) ==
  [timestamp |-> DividedBySpeed(sample.timestamp, effectiveSpeed),
   duration |-> DividedBySpeed(sample.duration, effectiveSpeed)]

\* adjusted = sample.clone(); setTimestamp(sample.timestamp / effectiveSpeed):
\* the clone keeps the duration of the source sample
AdjustedAudio(sample, effectiveSpeed) ==
  [timestamp |-> DividedBySpeed(sample.timestamp, effectiveSpeed),
   duration |-> Ratio(sample.duration, 1)]

\* const totalDuration = duration ?? computeDuration(): the end of the last sample
TotalDuration(track) ==
  IF track = <<>> THEN 0
  ELSE track[Len(track)].timestamp + track[Len(track)].duration

\* Math.min(95, Math.round((newTimestamp / scaledDuration) * 100))
SpeedProgress(sample, track) ==
  Min(95, Round(sample.timestamp * 100, TotalDuration(track)))

\* a file with a video track, and perhaps an audio track, is selected
InitSpeed ==
  /\ MergeInit
  /\ SpeedOthersIdle
  /\ \E v \in SourceTracks \ {<<>>} : \E a \in SourceTracks :
       speedJob = [SpeedIdle EXCEPT !.status = "ready", !.video = v, !.audio = a]

SpeedConverting == speedJob.status = "converting"

handleSpeedPresetChange ==
  /\ ~SpeedConverting
  /\ \E preset \in SPEED_PRESETS : speedJob' = [speedJob EXCEPT !.speed = preset]
  /\ UNCHANGED notSpeedVars

handleSpeedChange ==
  /\ ~SpeedConverting
  /\ \E value \in TypedSpeeds :
       speedJob' = [speedJob EXCEPT !.speed = normalizeSpeed(value)]
  /\ UNCHANGED notSpeedVars

\* the button: convert up to the awaits that precede setStatus('converting')
SpeedConvert ==
  /\ speedJob.pc \in {"idle", "done", "failed"}
  /\ ~SpeedConverting
  /\ speedJob.speed > 0
  /\ speedJob' = [speedJob EXCEPT !.pc = "opening",
                                  !.effectiveSpeed = speedJob.speed,
                                  !.writtenVideo = <<>>, !.writtenAudio = <<>>]
  /\ UNCHANGED notSpeedVars

\* tracks read, sources added, setStatus('converting'), output.start() resolved
SpeedStart ==
  /\ speedJob.pc = "opening"
  /\ speedJob' = [speedJob EXCEPT !.pc = "video", !.status = "converting",
                                  !.progress = 0]
  /\ UNCHANGED notSpeedVars

\* one turn of for await (const sample of videoSink.samples())
SpeedVideoSample ==
  /\ speedJob.pc = "video"
  /\ Len(speedJob.writtenVideo) < Len(speedJob.video)
  /\ LET sample == speedJob.video[Len(speedJob.writtenVideo) + 1]
     IN  speedJob' =
           [speedJob EXCEPT
              !.writtenVideo = Append(@, AdjustedVideo(sample, speedJob.effectiveSpeed)),
              !.progress = SpeedProgress(sample, speedJob.video)]
  /\ UNCHANGED notSpeedVars

\* the video sink is exhausted: videoSource.close()
SpeedVideoEnd ==
  /\ speedJob.pc = "video"
  /\ Len(speedJob.writtenVideo) = Len(speedJob.video)
  /\ speedJob' = [speedJob EXCEPT
                    !.pc = IF speedJob.audio # <<>> THEN "audio" ELSE "finalize"]
  /\ UNCHANGED notSpeedVars

\* one turn of for await (const sample of audioSink.samples())
SpeedAudioSample ==
  /\ speedJob.pc = "audio"
  /\ Len(speedJob.writtenAudio) < Len(speedJob.audio)
  /\ LET sample == speedJob.audio[Len(speedJob.writtenAudio) + 1]
     IN  speedJob' =
           [speedJob EXCEPT
              !.writtenAudio = Append(@, AdjustedAudio(sample, speedJob.effectiveSpeed))]
  /\ UNCHANGED notSpeedVars

\* the audio sink is exhausted: audioSource.close()
SpeedAudioEnd ==
  /\ speedJob.pc = "audio"
  /\ Len(speedJob.writtenAudio) = Len(speedJob.audio)
  /\ speedJob' = [speedJob EXCEPT !.pc = "finalize"]
  /\ UNCHANGED notSpeedVars

\* output.finalize() resolved ... setProgress(100), setStatus('success')
SpeedFinalize ==
  /\ speedJob.pc = "finalize"
  /\ speedJob' = [speedJob EXCEPT !.pc = "done", !.status = "success",
                                  !.progress = 100]
  /\ UNCHANGED notSpeedVars

\* an await of the try block rejects: catch (err)
SpeedCatch ==
  /\ speedJob.pc \in {"opening", "video", "audio", "finalize"}
  /\ speedJob' = [speedJob EXCEPT !.pc = "failed", !.status = "error",
                                  !.progress = 0]
  /\ UNCHANGED notSpeedVars

NextSpeed ==
  \/ handleSpeedPresetChange
  \/ handleSpeedChange
  \/ SpeedConvert
  \/ SpeedStart
  \/ SpeedVideoSample
  \/ SpeedVideoEnd
  \/ SpeedAudioSample
  \/ SpeedAudioEnd
  \/ SpeedFinalize
  \/ SpeedCatch

SpecSpeed == InitSpeed /\ [][NextSpeed]_vars

\* written follows source sample by sample: timestamps divided by the speed,
\* in pull order, source order kept, and no overlap where the source had none
KeepsOrder(source, written) ==
  /\ Len(written) <= Len(source)
  /\ \A k \in 1..Len(written) :
       RatioEq(written[k].timestamp,
               DividedBySpeed(source[k].timestamp, speedJob.effectiveSpeed))
  /\ \A k \in 1..(Len(written) - 1) :
       /\ RatioLeq(written[k].timestamp, written[k + 1].timestamp)
       /\ Consecutive(source[k], source[k + 1]) =>
            RatioLeq(RatioSum(written[k].timestamp, written[k].duration),
                     written[k + 1].timestamp)

\* C22: every video sample is written with timestamp and duration divided by
\* the speed and every audio sample with its timestamp divided by the speed,
\* each track in pull order; within each track the written timestamps keep the
\* source order and consecutive written samples do not overlap when the source
\* samples did not
C22_SpeedScaled ==
  /\ KeepsOrder(speedJob.video, speedJob.writtenVideo)
  /\ \A k \in 1..Len(speedJob.writtenVideo) :
       RatioEq(speedJob.writtenVideo[k].duration,
               DividedBySpeed(speedJob.video[k].duration, speedJob.effectiveSpeed))
  /\ KeepsOrder(speedJob.audio, speedJob.writtenAudio)

----------------------------------------------------------------------------
\* Part 9: convert of ImageToVideoTool (with and without audio) and of
\* AddWatermarkTool: what each step reports

\* const FRAME_RATE = 30
FRAME_RATE == 30

\* durationSeconds of the jobs followed
ImageDurations == {1, 2}

\* conversion.onProgress values of the watermark job, in percent
ProgressValues == {0, 50, 100}

RenderTools == {"imageToVideo", "addWatermark"}

\* convert's promise was rejected by an await outside its try block
Rejected == {"loadImageRejected", "selectAudioCodecRejected"}

\* const frameCount = Math.max(1, Math.round(durationSeconds * FRAME_RATE))
frameCount == Max(1, Round(renderJob.durationSeconds * FRAME_RATE, 1))

\* setProgress(Math.round(((i + 1) / frameCount) * 100)), i + 1 frames added
FrameProgress(added) == Round(added * 100, frameCount)

\* the files are selected, the duration is valid, the audio (if any) is decoded
InitRender ==
  /\ MergeInit
  /\ RenderOthersIdle
  /\ \E t \in RenderTools, d \in ImageDurations, a \in BOOLEAN :
       /\ t = "addWatermark" => d = 1 /\ a = FALSE
       /\ renderJob = [RenderIdle EXCEPT !.tool = t, !.durationSeconds = d,
                                         !.hasAudio = a]

\* setErrorMessage(message); setStatus('error') and return
RenderError(message) ==
  renderJob' = [renderJob EXCEPT !.status = "error", !.errorMessage = message,
                                 !.pc = "failed"]

\* catch (err): setErrorMessage, setStatus('error'), setProgress(0)
RenderCatch(message) ==
  renderJob' = [renderJob EXCEPT !.status = "error", !.errorMessage = message,
                                 !.progress = 0, !.pc = "failed"]

\* setStatus('converting'); setProgress(0); setErrorMessage(null)
RenderConverting(step) ==
  renderJob' = [renderJob EXCEPT !.status = "converting", !.progress = 0,
                                 !.errorMessage = "", !.pc = step]

\* the button: convert up to await loadImage(...)
RenderConvert ==
  /\ renderJob.pc \in {"idle", "done", "failed"} \cup Rejected
  /\ renderJob.status # "converting"
  /\ renderJob' = [renderJob EXCEPT !.pc = "loadImage", !.framesAdded = 0,
                                    !.finalized = FALSE]
  /\ UNCHANGED notRenderVars

\* loadImage resolved; ImageToVideoTool goes on to the canvas and the audio
\* codec, AddWatermarkTool to setStatus('converting')
LoadImageResolves ==
  /\ renderJob.pc = "loadImage"
  /\ IF renderJob.tool = "addWatermark"
       THEN RenderConverting("init")
       ELSE \/ RenderError("Unable to draw image onto canvas.")
            \/ /\ renderJob.hasAudio
               /\ \/ RenderError("Audio encoding is not supported in this browser.")
                  \/ renderJob' = [renderJob EXCEPT !.pc = "selectAudioCodec"]
            \/ /\ ~renderJob.hasAudio
               /\ RenderConverting("start")
  /\ UNCHANGED notRenderVars

\* img.onerror: loadImage rejects outside any try block, convert's promise
\* rejects and no state is set
LoadImageRejects ==
  /\ renderJob.pc = "loadImage"
  /\ renderJob' = [renderJob EXCEPT !.pc = "loadImageRejected"]
  /\ UNCHANGED notRenderVars

\* await selectAudioCodec(supportedCodecs) returned a codec
SelectAudioCodecResolves ==
  /\ renderJob.pc = "selectAudioCodec"
  /\ RenderConverting("start")
  /\ UNCHANGED notRenderVars

\* selectAudioCodec: throw new Error('No compatible audio codec ...'),
\* outside any try block
SelectAudioCodecRejects ==
  /\ renderJob.pc = "selectAudioCodec"
  /\ renderJob' = [renderJob EXCEPT !.pc = "selectAudioCodecRejected"]
  /\ UNCHANGED notRenderVars

\* await output.start() resolved
ImageStart ==
  /\ renderJob.pc = "start"
  /\ renderJob' = [renderJob EXCEPT !.pc = "frames"]
  /\ UNCHANGED notRenderVars

\* one turn of the frame loop: await canvasSource.add(...), setProgress
ImageAddFrame ==
  /\ renderJob.pc = "frames"
  /\ renderJob.framesAdded < frameCount
  /\ renderJob' = [renderJob EXCEPT !.framesAdded = @ + 1,
                                    !.progress = FrameProgress(renderJob.framesAdded + 1)]
  /\ UNCHANGED notRenderVars

\* canvasSource.close(), then the audio if there is any
ImageFramesDone ==
  /\ renderJob.pc = "frames"
  /\ renderJob.framesAdded = frameCount
  /\ renderJob' = [renderJob EXCEPT
                     !.pc = IF renderJob.hasAudio THEN "audio" ELSE "finalize"]
  /\ UNCHANGED notRenderVars

\* await audioSource.add(matchedBuffer) resolved
ImageAudioAdded ==
  /\ renderJob.pc = "audio"
  /\ renderJob' = [renderJob EXCEPT !.pc = "finalize"]
  /\ UNCHANGED notRenderVars

\* await output.finalize() resolved ... setStatus('success')
ImageFinalize ==
  /\ renderJob.pc = "finalize"
  /\ renderJob' = [renderJob EXCEPT !.finalized = TRUE, !.status = "success",
                                    !.pc = "done"]
  /\ UNCHANGED notRenderVars

\* an await of ImageToVideoTool's try block rejects
ImageCatch ==
  /\ renderJob.pc \in {"start", "frames", "audio", "finalize"}
  /\ RenderCatch("Video rendering failed. Try again.")
  /\ UNCHANGED notRenderVars

\* AddWatermarkTool: createBlobInput and Conversion.init resolved
WatermarkInit ==
  /\ renderJob.pc = "init"
  /\ \/ renderJob' = [renderJob EXCEPT
                        !.status = "error", !.pc = "failed", !.errorMessage =
                          "Could not configure the watermark conversion for this file."]
     \/ renderJob' = [renderJob EXCEPT !.pc = "execute"]
  /\ UNCHANGED notRenderVars

\* conversion.onProgress = (value) => setProgress(Math.round(value * 100))
WatermarkProgress ==
  /\ renderJob.pc = "execute"
  /\ \E value \in ProgressValues :
       /\ value >= renderJob.progress
       /\ renderJob' = [renderJob EXCEPT !.progress = value]
  /\ UNCHANGED notRenderVars

\* await conversion.execute() resolved ... setStatus('success'), setProgress(100)
WatermarkSucceed ==
  /\ renderJob.pc = "execute"
  /\ renderJob' = [renderJob EXCEPT !.finalized = TRUE, !.status = "success",
                                    !.progress = 100, !.pc = "done"]
  /\ UNCHANGED notRenderVars

\* an await of AddWatermarkTool's try block rejects
WatermarkCatch ==
  /\ renderJob.pc \in {"init", "execute"}
  /\ RenderCatch("Applying the watermark failed. Try again.")
  /\ UNCHANGED notRenderVars

NextRender ==
  \/ RenderConvert
  \/ LoadImageResolves
  \/ LoadImageRejects
  \/ SelectAudioCodecResolves
  \/ SelectAudioCodecRejects
  \/ ImageStart
  \/ ImageAddFrame
  \/ ImageFramesDone
  \/ ImageAudioAdded
  \/ ImageFinalize
  \/ ImageCatch
  \/ WatermarkInit
  \/ WatermarkProgress
  \/ WatermarkSucceed
  \/ WatermarkCatch

SpecRender == InitRender /\ [][NextRender]_vars

\* C26: in the image-to-video job the progress value 100 is reported only after
\* output.finalize() has resolved; while frames are being added or the output
\* is not yet finalized every reported progress value is below 100
C26_HundredAfterFinalize ==
  /\ renderJob.tool = "imageToVideo"
  /\ renderJob.pc \in {"frames", "audio", "finalize"}
  => renderJob.progress < 100

\* C29: every failure of convert ends with status 'error' and a non-empty
\* error message; convert never ends by an unhandled rejection that leaves the
\* status as it was
C29_FailuresReported ==
  /\ renderJob.pc \notin Rejected
  /\ renderJob.pc = "failed" =>
       /\ renderJob.status = "error"
       /\ renderJob.errorMessage # ""

----------------------------------------------------------------------------
\* Part 10: handleAudioSelected of ReplaceAudioTool and of ImageToVideoTool,
\* with the decodes it leaves in flight.  A file is a number, 0 is null; a
\* decode request is [id, file] and so is what it decodes to.  requestId is
\* audioDecodeRequestId.current in ImageToVideoTool; ReplaceAudioTool has no
\* such ref and the field only numbers its calls.

\* most calls of handleAudioSelected
MaxSelections == 3

AudioFiles == {1, 2}
PickTools == {"replaceAudio", "imageToVideo"}

\* a slip: a superseded request is taken for the current one
SupersededNever(request, current) == FALSE

\* audioDecodeRequestId.current !== requestId
Superseded(request, current) == request.id # current

InitPick ==
  /\ MergeInit
  /\ PickOthersIdle
  /\ \E t \in PickTools : audioPick = [PickIdle EXCEPT !.tool = t]

\* ReplaceAudioTool.handleAudioSelected up to await decodeAudioBuffer(file);
\* a video file is selected
ReplaceAudioSelected ==
  /\ audioPick.tool = "replaceAudio"
  /\ audioPick.requestId < MaxSelections
  /\ \E file \in AudioFiles \cup {0} :
       LET request == [id |-> audioPick.requestId + 1, file |-> file]
       IN  audioPick' =
             [audioPick EXCEPT
                !.audioFile = file,
                !.status = IF file # 0 THEN "ready" ELSE "idle",
                !.errorMessage = "",
                !.audioDuration = <<>>,
                !.audioBuffer = <<>>,
                !.requestId = request.id,
                !.pending = IF file # 0 THEN @ \cup {request} ELSE @,
                !.lastResult = "none"]
  /\ UNCHANGED notPickVars

\* ReplaceAudioTool: decodeAudioBuffer resolved, setAudioBuffer, setAudioDuration
ReplaceAudioDecoded ==
  /\ audioPick.tool = "replaceAudio"
  /\ \E request \in audioPick.pending :
       audioPick' = [audioPick EXCEPT !.audioBuffer = request,
                                      !.audioDuration = request,
                                      !.pending = @ \ {request},
                                      !.lastResult = "applied"]
  /\ UNCHANGED notPickVars

\* ReplaceAudioTool: decodeAudioBuffer rejected, catch (err)
ReplaceAudioDecodeFails ==
  /\ audioPick.tool = "replaceAudio"
  /\ \E request \in audioPick.pending :
       audioPick' = [audioPick EXCEPT !.errorMessage = "Unable to decode audio file.",
                                      !.status = "error",
                                      !.pending = @ \ {request},
                                      !.lastResult = "applied"]
  /\ UNCHANGED notPickVars

\* ImageToVideoTool.handleAudioSelected up to await decodeAudioBuffer(nextFile)
ImageAudioSelected ==
  /\ audioPick.tool = "imageToVideo"
  /\ audioPick.requestId < MaxSelections
  /\ \E nextFile \in AudioFiles \cup {0} :
       LET request == [id |-> audioPick.requestId + 1, file |-> nextFile]
       IN  audioPick' =
             [audioPick EXCEPT
                !.requestId = request.id,
                !.audioFile = nextFile,
                !.audioBuffer = <<>>,
                !.audioDuration = <<>>,
                !.audioDecoding = nextFile # 0,
                !.pending = IF nextFile # 0 THEN @ \cup {request} ELSE @,
                !.lastResult = "none"]
  /\ UNCHANGED notPickVars

\* ImageToVideoTool: decodeAudioBuffer resolved; try and finally
ImageAudioDecoded ==
  /\ audioPick.tool = "imageToVideo"
  /\ \E request \in audioPick.pending :
       IF Superseded(request, audioPick.requestId)
         THEN audioPick' = [audioPick EXCEPT !.pending = @ \ {request},
                                             !.lastResult = "ignored"]
         ELSE audioPick' = [audioPick EXCEPT !.audioBuffer = request,
                                             !.audioDuration = request,
                                             !.audioDecoding = FALSE,
                                             !.pending = @ \ {request},
                                             !.lastResult = "applied"]
  /\ UNCHANGED notPickVars

\* ImageToVideoTool: decodeAudioBuffer rejected; catch and finally
ImageAudioDecodeFails ==
  /\ audioPick.tool = "imageToVideo"
  /\ \E request \in audioPick.pending :
       IF Superseded(request, audioPick.requestId)
         THEN audioPick' = [audioPick EXCEPT !.pending = @ \ {request},
                                             !.lastResult = "ignored"]
         ELSE audioPick' = [audioPick EXCEPT !.errorMessage = "Unable to decode audio file.",
                                             !.status = "error",
                                             !.audioFile = 0,
                                             !.audioDecoding = FALSE,
                                             !.pending = @ \ {request},
                                             !.lastResult = "applied"]
  /\ UNCHANGED notPickVars

NextPick ==
  \/ ReplaceAudioSelected
  \/ ReplaceAudioDecoded
  \/ ReplaceAudioDecodeFails
  \/ ImageAudioSelected
  \/ ImageAudioDecoded
  \/ ImageAudioDecodeFails

SpecPick == InitPick /\ [][NextPick]_vars

\* what was decoded is null or the decode of the latest selection
BelongsToLatest(decoded) ==
  decoded # <<>> =>
    /\ decoded.id = audioPick.requestId
    /\ decoded.file = audioPick.audioFile

\* the decode of the latest selection is still in flight
LatestPending == \E request \in audioPick.pending : request.id = audioPick.requestId

\* C27: in ReplaceAudioTool the stored audioBuffer is null or the decode of the
\* most recently selected audio file; a decode that finishes late for an
\* earlier selection never replaces the buffer, duration or status of the
\* current selection
C27_LatestBuffer ==
  audioPick.tool = "replaceAudio" =>
    /\ BelongsToLatest(audioPick.audioBuffer)
    /\ BelongsToLatest(audioPick.audioDuration)
    /\ LatestPending => audioPick.status # "error"

\* C28: in ImageToVideoTool results of superseded decode requests are ignored:
\* audioBuffer and audioDuration are null or belong to the latest selection,
\* and audioDecoding is true exactly while the latest request's decode is
\* pending
C28_SupersededIgnored ==
  audioPick.tool = "imageToVideo" =>
    /\ BelongsToLatest(audioPick.audioBuffer)
    /\ BelongsToLatest(audioPick.audioDuration)
    /\ audioPick.audioDecoding <=> LatestPending

\* the decode of an earlier selection finished after the latest selection's
\* and was ignored
C28_Witness ==
  /\ audioPick.tool = "imageToVideo"
  /\ audioPick.lastResult = "ignored"
  /\ audioPick.requestId = 2
  /\ audioPick.audioBuffer # <<>>
  /\ audioPick.audioBuffer.id = 2
  /\ audioPick.pending = {}

----------------------------------------------------------------------------
\* Part 11: CutVideoTool.  Times are in 1/100 s, so the 0.01 of the end input
\* is 1.  convert keeps the startTime, endTime and duration of the render it
\* was created in (trim) across its awaits; started is the trim that
\* Conversion.init was given.

\* longest video, in 1/100 s
MaxCutDuration == 3

\* videoRef.current.duration: a finite number, or NaN before it is known
MediaDurations == {Number(d) : d \in 0..MaxCutDuration} \cup {NaN}

\* Number(event.target.value)
TypedTimes == {Number(v) : v \in -1..(MaxCutDuration + 1)} \cup {NaN}

\* a slip: the lower limit is applied last
clampFloorLast(value, min, max) == Max(Min(value, max), min)

\* clamp
clamp(value, min, max) == Min(Max(value, min), max)

\* value ?? fallback
OrElse(value, fallback) == IF value = Null THEN fallback ELSE value

\* videoRef.current.currentTime
CurrentTimes == 0..OrElse(cutJob.duration, MaxCutDuration)

startEndValid ==
  /\ cutJob.duration # Null
  /\ cutJob.endTime # Null
  /\ cutJob.startTime >= 0
  /\ cutJob.startTime < cutJob.endTime
  /\ cutJob.endTime <= cutJob.duration

CutConverting == cutJob.status = "converting"

InitCut ==
  /\ MergeInit
  /\ CutOthersIdle
  /\ cutJob = CutIdle

\* handleFileSelected; the picker is disabled while converting
handleFileSelected ==
  /\ ~CutConverting
  /\ \E nextFile \in {0, 1} :
       cutJob' = [cutJob EXCEPT !.file = nextFile,
                                !.status = IF nextFile # 0 THEN "ready" ELSE "idle",
                                !.errorMessage = "",
                                !.duration = Null,
                                !.startTime = 0,
                                !.endTime = Null]
  /\ UNCHANGED notCutVars

\* handleMetadataLoaded of the video element, rendered while a file is selected
handleMetadataLoaded ==
  /\ cutJob.file # 0
  /\ \E mediaDuration \in MediaDurations :
       /\ ~mediaDuration.nan
       /\ cutJob' = [cutJob EXCEPT !.duration = mediaDuration.value,
                                   !.startTime = 0,
                                   !.endTime = mediaDuration.value]
  /\ UNCHANGED notCutVars

\* onChange of the start input, disabled while converting or duration === null
StartInputChange ==
  /\ ~CutConverting
  /\ cutJob.duration # Null
  /\ \E typed \in TypedTimes :
       /\ ~typed.nan
       /\ LET value == typed.value
          IN  cutJob' = [cutJob EXCEPT !.startTime =
                clamp(value, 0, Min(OrElse(cutJob.endTime, value),
                                    OrElse(cutJob.duration, value)))]
  /\ UNCHANGED notCutVars

\* onChange of the end input, disabled while converting or duration === null
EndInputChange ==
  /\ ~CutConverting
  /\ cutJob.duration # Null
  /\ \E typed \in TypedTimes :
       /\ ~typed.nan
       /\ LET value == typed.value
              upper == OrElse(cutJob.duration, value)
          IN  cutJob' = [cutJob EXCEPT !.endTime =
                clamp(value, cutJob.startTime + 1, upper)]
  /\ UNCHANGED notCutVars

\* setStartFromVideo; the button needs the video element and no conversion
setStartFromVideo ==
  /\ ~CutConverting
  /\ cutJob.file # 0
  /\ \E currentTime \in CurrentTimes :
       cutJob' = [cutJob EXCEPT !.startTime =
         clamp(currentTime, 0, OrElse(cutJob.endTime, currentTime))]
  /\ UNCHANGED notCutVars

\* setEndFromVideo
setEndFromVideo ==
  /\ ~CutConverting
  /\ cutJob.file # 0
  /\ \E currentTime \in CurrentTimes :
       LET limit == OrElse(cutJob.duration, currentTime)
       IN  cutJob' = [cutJob EXCEPT !.endTime =
             clamp(currentTime, cutJob.startTime, limit)]
  /\ UNCHANGED notCutVars

CutError(message) ==
  [cutJob EXCEPT !.errorMessage = message, !.status = "error", !.pc = "idle"]

\* convert up to the runtime: the two early returns, else await reload()
CutConvert ==
  /\ cutJob.pc = "idle"
  /\ ~CutConverting
  /\ cutJob' =
       IF cutJob.file = 0
         THEN CutError("Select a video file first.")
       ELSE IF ~startEndValid \/ cutJob.endTime = Null
         THEN CutError("Choose a valid start and end time before cutting.")
       ELSE [cutJob EXCEPT !.pc = "runtime",
                           !.trim = [start |-> cutJob.startTime,
                                     end |-> cutJob.endTime,
                                     duration |-> cutJob.duration]]
  /\ UNCHANGED notCutVars

\* if (!runtime)
CutRuntimeMissing ==
  /\ cutJob.pc = "runtime"
  /\ cutJob' = CutError("Unable to load Mediabunny. Please try again.")
  /\ UNCHANGED notCutVars

\* setStatus('converting') ... await createBlobInput(file, runtime)
CutBegin ==
  /\ cutJob.pc = "runtime"
  /\ cutJob' = [cutJob EXCEPT !.status = "converting", !.errorMessage = "",
                              !.pc = "input"]
  /\ UNCHANGED notCutVars

\* runtime.Conversion.init({ input, output, trim: { start: startTime, end: endTime } })
CutInit ==
  /\ cutJob.pc = "input"
  /\ cutJob' = [cutJob EXCEPT !.started = cutJob.trim, !.pc = "init"]
  /\ UNCHANGED notCutVars

\* if (!conversion.isValid)
CutInvalid ==
  /\ cutJob.pc = "init"
  /\ cutJob' = CutError("Could not configure the cut with this file. Try a different video.")
  /\ UNCHANGED notCutVars

\* conversion.execute() resolved with data
CutSucceed ==
  /\ cutJob.pc = "init"
  /\ cutJob' = [cutJob EXCEPT !.status = "success", !.pc = "idle"]
  /\ UNCHANGED notCutVars

\* catch (err)
CutCatch ==
  /\ cutJob.pc \in {"input", "init"}
  /\ cutJob' = CutError("Cutting failed. Try again.")
  /\ UNCHANGED notCutVars

NextCut ==
  \/ handleFileSelected
  \/ handleMetadataLoaded
  \/ StartInputChange
  \/ EndInputChange
  \/ setStartFromVideo
  \/ setEndFromVideo
  \/ CutConvert
  \/ CutRuntimeMissing
  \/ CutBegin
  \/ CutInit
  \/ CutInvalid
  \/ CutSucceed
  \/ CutCatch

SpecCut == InitCut /\ [][NextCut]_vars

\* C30: whenever the duration is known, 0 <= startTime <= endTime <= duration,
\* and a trim conversion is only ever started with 0 <= start < end <= duration
C30_StartEndOrdered ==
  /\ cutJob.duration # Null =>
       /\ cutJob.endTime # Null
       /\ 0 <= cutJob.startTime
       /\ cutJob.startTime <= cutJob.endTime
       /\ cutJob.endTime <= cutJob.duration
  /\ cutJob.started # <<>> =>
       /\ 0 <= cutJob.started.start
       /\ cutJob.started.start < cutJob.started.end
       /\ cutJob.started.end <= cutJob.started.duration

\* a cut of the inside of the video was started, and afterwards the start was
\* moved up to an end that lies at the duration
C30_Witness ==
  /\ cutJob.started # <<>>
  /\ cutJob.started.start > 0
  /\ cutJob.started.end < cutJob.started.duration
  /\ cutJob.duration # Null
  /\ cutJob.startTime = cutJob.endTime
  /\ cutJob.endTime = cutJob.duration
  /\ cutJob.duration > 0

====
